---- MODULE Spec2Model ----
(***************************************************************************)
(* Verification model of the MegaLLM setup tool (megallm-npm).             *)
(*                                                                         *)
(* Shell profiles are sequences of text tokens; the regular expressions of *)
(* setEnvironmentVariable and removeUnixEnvVars are evaluated over them    *)
(* with JavaScript's leftmost, greedy, backtracking semantics.             *)
(* Configuration objects are JavaScript objects: insertion-ordered lists   *)
(* of key/value pairs.                                                     *)
(***************************************************************************)
EXTENDS Integers, Sequences, FiniteSets, TLC

VARIABLES
    fs,        \* profile files: name -> [exists, text]
    penv,      \* process.env restricted to the managed variables
    shell,     \* the user's shell, as detectShell() reports it
    ioFail,    \* files whose read or write throws (EACCES)
    results,   \* what the last removeEnvVars() returned
    setOk,     \* what the last setEnvironmentVariable() returned
    prevFs,    \* fs before the last operation
    initFs,    \* fs before the first operation
    hist,      \* operations performed so far
    existingData,  \* mergeJsonConfig: first argument
    newData,       \* mergeJsonConfig: second argument
    merged,        \* mergeJsonConfig: the object returned
    mergePc,       \* "call" before mergeJsonConfig ran, "done" after
    disk,          \* configuration files: path -> [exists, corrupt, data]
    gitignore,     \* ./.gitignore: [exists, text]
    roPaths,       \* configuration paths whose write throws (EACCES)
    cfgOk,         \* what the last configurator or file operation returned
    readResult,    \* what the last readJsonFile / readTomlFile returned
    prevDisk,      \* disk before the last operation
    cfgHist,       \* configurator runs and file operations so far
    pc,            \* main: the step the flow is at
    exitCode,      \* main: the status of process.exit, once pc = "exited"
    printed,       \* main: the messages printed so far
    installed,     \* main: the tools detected as installed
    selectedTool,  \* main: what promptToolSelection returned
    setupLevel,    \* main: the setup level
    keyInput,      \* main: the API key promptApiKey returned
    ran,           \* main: the configurators run in this pass, with their results
    envCalls,      \* main: the setEnvironmentVariable calls made
    attempts,      \* main: the number of times main was entered
    cause,         \* main: why the process exited
    installChoice, \* main: what the installation prompt returned
    pending,       \* the interrupt waiting for the event loop, with the step it arrived in
    initDisk,      \* main: disk when the run started
    typed,         \* promptApiKey: what the user typed at the password prompt
    checked,       \* what the last checkExistingConfiguration() found
    keyEntry       \* the entry detectExistingEnvVars pushed for the last API key

profileVars == <<fs, penv, shell, ioFail, results, setOk, prevFs, initFs, hist>>

mergeVars == <<existingData, newData, merged, mergePc>>

configVars == <<disk, gitignore, roPaths, cfgOk, readResult, prevDisk, cfgHist>>

mainVars ==
    <<pc, exitCode, printed, installed, selectedTool, setupLevel, keyInput, ran, envCalls,
      attempts, cause, installChoice, pending, initDisk, typed, checked, keyEntry>>

vars == <<profileVars, mergeVars, configVars, mainVars>>

notProfile == <<mergeVars, configVars, mainVars>>

notMerge == <<profileVars, configVars, mainVars>>

notConfig == <<profileVars, mergeVars, mainVars>>

(***************************************************************************)
(* Bounds                                                                  *)
(***************************************************************************)
MaxOps == 3
MaxLines == 2

(***************************************************************************)
(* Text tokens                                                             *)
(***************************************************************************)
NL == "\n"
SP == " "
HDR == "# MegaLLM Configuration"
EXPORT == "export"
EQ == "="
QUOTE == "\""
SETW == "set"
MINUSX == "-x"
SUFFIX == "_OLD"
OTHERVAR == "PATH"
PREFIX == "MY_"
TEXT == "echo"
DOLLARAMP == "$&"

MEGALLM_BASE_URL == "https://ai.megallm.io"

ManagedVars == <<"ANTHROPIC_BASE_URL", "ANTHROPIC_API_KEY", "MEGALLM_API_KEY">>

VarNames == {ManagedVars[n] : n \in 1..Len(ManagedVars)}

ApiKeys == {"sk-key-1", "sk-key-2", DOLLARAMP}

Values == ApiKeys \cup {MEGALLM_BASE_URL}

NoValue == "undefined"

Range(s) == {s[n] : n \in 1..Len(s)}

Max(a, b) == IF a > b THEN a ELSE b

(***************************************************************************)
(* Regular-expression primitives.  A matcher gets the subject s and a      *)
(* start index i and returns the index after the match, or 0.              *)
(***************************************************************************)
IsWS(t) == t \in {SP, NL}

IsUpper(t) == t \in VarNames \cup {SUFFIX, PREFIX, OTHERVAR}

At(s, i, t) == i >= 1 /\ i <= Len(s) /\ s[i] = t

\* \s* from i: the first index >= i that holds no whitespace
SkipWS(s, i) ==
    LET stops == {j \in i..(Len(s) + 1) : j > Len(s) \/ ~IsWS(s[j])}
    IN CHOOSE j \in stops : \A k \in stops : j <= k

\* .* from i: the first index >= i that holds a newline, or the end
EOL(s, i) ==
    LET stops == {j \in i..(Len(s) + 1) : j > Len(s) \/ s[j] = NL}
    IN CHOOSE j \in stops : \A k \in stops : j <= k

\* \n? at j
OptNL(s, j) == IF At(s, j, NL) THEN j + 1 ELSE j

\* [A-Z_]+ from i: the first index >= i that holds no upper-case token
SkipUpper(s, i) ==
    LET stops == {j \in i..(Len(s) + 1) : j > Len(s) \/ ~IsUpper(s[j])}
    IN CHOOSE j \in stops : \A k \in stops : j <= k

\* export\s+V from p; the index after V, or 0
ExportVar(s, p, V) ==
    IF At(s, p, EXPORT)
    THEN LET j == SkipWS(s, p + 1)
         IN IF j > p + 1 /\ At(s, j, V) THEN j + 1 ELSE 0
    ELSE 0

\* V\s*= from i; the index after =, or 0
AssignVar(s, i, V) ==
    IF At(s, i, V)
    THEN LET k == SkipWS(s, i + 1)
         IN IF At(s, k, EQ) THEN k + 1 ELSE 0
    ELSE 0

\* new RegExp(`export ${key}=.*`, 'g')
setRegex(s, i, key) ==
    IF At(s, i, EXPORT) /\ At(s, i + 1, SP) /\ At(s, i + 2, key) /\ At(s, i + 3, EQ)
    THEN EOL(s, i + 4)
    ELSE 0

\* new RegExp(`export\\s+${varName}\\s*=.*\n?`, 'g')
pattern1(s, i, V) ==
    LET j == ExportVar(s, i, V)
    IN IF j > 0 /\ AssignVar(s, j - 1, V) > 0
       THEN OptNL(s, EOL(s, AssignVar(s, j - 1, V)))
       ELSE 0

\* new RegExp(`${varName}\\s*=.*\n?export\\s+${varName}\n?`, 'g')
\* .* is greedy: the export is looked for on the next line first, then
\* from the end of the line backwards.
pattern2(s, i, V) ==
    LET a == AssignVar(s, i, V)
        e == EOL(s, a)
        cands == {p \in a..(e + 1) : p # e /\ ExportVar(s, p, V) > 0}
        best == IF e + 1 \in cands THEN e + 1
                ELSE CHOOSE p \in cands : \A q \in cands : q <= p
    IN IF a > 0 /\ cands # {} THEN OptNL(s, ExportVar(s, best, V)) ELSE 0

\* new RegExp(`set\\s+-x\\s+${varName}.*\n?`, 'g')   (fish shell)
pattern3(s, i, V) ==
    IF At(s, i, SETW)
    THEN LET j == SkipWS(s, i + 1)
             k == SkipWS(s, j + 1)
         IN IF j > i + 1 /\ At(s, j, MINUSX) /\ k > j + 1 /\ At(s, k, V)
            THEN OptNL(s, EOL(s, k + 1))
            ELSE 0
    ELSE 0

\* new RegExp(`# MegaLLM Configuration\n?export\\s+${varName}.*\n?`, 'g')
pattern4(s, i, V) ==
    IF At(s, i, HDR)
    THEN LET j == ExportVar(s, OptNL(s, i + 1), V)
         IN IF j > 0 THEN OptNL(s, EOL(s, j)) ELSE 0
    ELSE 0

\* /# MegaLLM Configuration\n(?=\n|$)/g
emptyBlockRegex(s, i) ==
    IF At(s, i, HDR) /\ At(s, i + 1, NL) /\ (i + 2 > Len(s) \/ At(s, i + 2, NL))
    THEN i + 2
    ELSE 0

\* new RegExp(`${varName}\\s*=.*\n?`, 'g')   (/etc/environment)
etcPattern(s, i, V) ==
    LET a == AssignVar(s, i, V)
    IN IF a > 0 THEN OptNL(s, EOL(s, a)) ELSE 0

\* one line of (?:export [A-Z_]+=.*\n)* from j; the index after it, or 0
SectionLine(s, j) ==
    IF At(s, j, EXPORT) /\ At(s, j + 1, SP)
    THEN LET u == SkipUpper(s, j + 2)
         IN IF u > j + 2 /\ At(s, u, EQ) /\ EOL(s, u + 1) <= Len(s)
            THEN EOL(s, u + 1) + 1
            ELSE 0
    ELSE 0

RECURSIVE SectionEnd(_, _)
SectionEnd(s, j) ==
    IF SectionLine(s, j) > 0 THEN SectionEnd(s, SectionLine(s, j)) ELSE j

\* /(# MegaLLM Configuration\n(?:export [A-Z_]+=.*\n)*)/
megallmSectionRegex(s, i) ==
    IF At(s, i, HDR) /\ At(s, i + 1, NL) THEN SectionEnd(s, i + 2) ELSE 0

\* the match-end table of a pattern over s
Table(s, M(_, _)) == [i \in 1..Len(s) |-> M(s, i)]

\* regex.test(content) on a fresh regex
Test(m) == \E i \in DOMAIN m : m[i] > 0

\* a replacement string with its $& patterns expanded
RECURSIVE Expand(_, _)
Expand(repl, matched) ==
    IF repl = <<>> THEN <<>>
    ELSE (IF Head(repl) = DOLLARAMP THEN matched ELSE <<Head(repl)>>)
         \o Expand(Tail(repl), matched)

\* content.replace(regex, repl) for a global regex
RECURSIVE ReplaceAll(_, _, _, _)
ReplaceAll(s, m, repl, i) ==
    IF i > Len(s) THEN <<>>
    ELSE IF m[i] > 0
         THEN Expand(repl, SubSeq(s, i, m[i] - 1)) \o ReplaceAll(s, m, repl, m[i])
         ELSE <<s[i]>> \o ReplaceAll(s, m, repl, i + 1)

\* content.replace(regex, repl) for a regex without the g flag
ReplaceFirst(s, m, repl) ==
    IF Test(m)
    THEN LET i == CHOOSE a \in DOMAIN m : m[a] > 0 /\ \A b \in DOMAIN m : m[b] > 0 => a <= b
         IN SubSeq(s, 1, i - 1) \o Expand(repl, SubSeq(s, i, m[i] - 1))
            \o SubSeq(s, m[i], Len(s))
    ELSE s

(***************************************************************************)
(* JavaScript values.  An object is an insertion-ordered list of           *)
(* <<key, value>> entries.                                                 *)
(***************************************************************************)
Undefined == <<"undefined">>
Null == <<"null">>
Str(x) == <<"string", x>>
Num(n) == <<"number", n>>
Bool(b) == <<"boolean", b>>
Arr(elems) == <<"array", elems>>
Obj(entries) == <<"object", entries>>
EmptyObj == Obj(<<>>)

TypeTag(v) == v[1]

\* typeof v === 'object' && !Array.isArray(v) && v !== null
IsPlainObject(v) == TypeTag(v) = "object"

Truthy(v) ==
    CASE TypeTag(v) \in {"undefined", "null"} -> FALSE
      [] TypeTag(v) = "boolean" -> v[2]
      [] TypeTag(v) = "number" -> v[2] # 0
      [] TypeTag(v) = "string" -> v[2] # ""
      [] OTHER -> TRUE

Entries(o) == o[2]

KeysOf(o) == [n \in 1..Len(Entries(o)) |-> Entries(o)[n][1]]

Has(o, k) == IsPlainObject(o) /\ \E n \in 1..Len(Entries(o)) : Entries(o)[n][1] = k

\* o[k]
Get(o, k) ==
    IF Has(o, k)
    THEN Entries(o)[CHOOSE n \in 1..Len(Entries(o)) : Entries(o)[n][1] = k][2]
    ELSE Undefined

\* o[k] = v: an existing key keeps its place, a new one goes last
Put(o, k, v) ==
    IF Has(o, k)
    THEN Obj([n \in 1..Len(Entries(o)) |->
                 IF Entries(o)[n][1] = k THEN <<k, v>> ELSE Entries(o)[n]])
    ELSE Obj(Append(Entries(o), <<k, v>>))

\* delete o[k]
Delete(o, k) == Obj(SelectSeq(Entries(o), LAMBDA e : e[1] # k))

\* the own enumerable properties a spread copies out of v
SpreadEntries(v) ==
    CASE TypeTag(v) = "object" -> Entries(v)
      [] TypeTag(v) = "array" -> [n \in 1..Len(v[2]) |-> <<ToString(n - 1), v[2][n]>>]
      [] TypeTag(v) \in {"undefined", "null", "boolean", "number"} -> <<>>

RECURSIVE PutAll(_, _)
PutAll(o, entries) ==
    IF entries = <<>> THEN o
    ELSE PutAll(Put(o, Head(entries)[1], Head(entries)[2]), Tail(entries))

\* { ...a, ...b }
Spread2(a, b) == PutAll(PutAll(EmptyObj, SpreadEntries(a)), SpreadEntries(b))

(***************************************************************************)
(* mergeJsonConfig(existingData, newData)                                  *)
(***************************************************************************)
\* the two arguments and merged = { ...existingData }: a copy of the top
\* level, whose object values are the objects existingData refers to
mergeStore(existing, new) ==
    [existing |-> existing, new |-> new, merged |-> Spread2(existing, EmptyObj)]

\* a merge that assigns into the object merged[key] refers to, which is the
\* one existingData[key] refers to
mergeObjectInPlace(st, key, val) ==
    LET old == Get(st.merged, key)
        assigned == PutAll(IF IsPlainObject(old) THEN old ELSE EmptyObj, Entries(val))
    IN [st EXCEPT !.merged = Put(st.merged, key, assigned),
                  !.existing = IF IsPlainObject(old) /\ Has(st.existing, key)
                               THEN Put(st.existing, key, assigned) ELSE st.existing]

\* merged[key] = merged[key] || {}; merged[key] = { ...merged[key], ...newData[key] }:
\* both assign a property of merged, the second one a new object
mergeObject(st, key, val) ==
    LET old == IF Truthy(Get(st.merged, key)) THEN Get(st.merged, key) ELSE EmptyObj
    IN [st EXCEPT !.merged = Put(st.merged, key, Spread2(old, val))]

\* the for...in loop over newData from entry n on
RECURSIVE mergeLoop(_, _)
mergeLoop(st, n) ==
    IF n > Len(Entries(st.new)) THEN st
    ELSE IF IsPlainObject(Entries(st.new)[n][2])
         THEN mergeLoop(mergeObject(st, Entries(st.new)[n][1], Entries(st.new)[n][2]), n + 1)
         ELSE mergeLoop([st EXCEPT !.merged = Put(st.merged, Entries(st.new)[n][1],
                                                 Entries(st.new)[n][2])],
                        n + 1)

\* the object returned
mergeJsonConfig(existing, new) == mergeLoop(mergeStore(existing, new), 1).merged

MergeIdle ==
    /\ existingData = EmptyObj
    /\ newData = EmptyObj
    /\ merged = EmptyObj
    /\ mergePc = "idle"

(***************************************************************************)
(* Files                                                                   *)
(***************************************************************************)
SHELL_CONFIG_FILES == [bash |-> ".bashrc", zsh |-> ".zshrc", fish |-> ".config/fish/config.fish"]

configFiles ==
    <<".bashrc", ".bash_profile", ".zshrc", ".zprofile", ".zshenv", ".profile",
      ".config/fish/config.fish">>

EtcEnvironment == "/etc/environment"

Files == Range(configFiles) \cup {EtcEnvironment}

Absent == [exists |-> FALSE, text |-> <<>>]

File(text) == [exists |-> TRUE, text |-> text]

getShellConfigFile(sh) ==
    CASE sh = "zsh" -> SHELL_CONFIG_FILES.zsh
      [] sh = "bash" -> SHELL_CONFIG_FILES.bash
      [] sh = "fish" -> SHELL_CONFIG_FILES.fish
      [] OTHER -> ".bashrc"

(***************************************************************************)
(* setEnvironmentVariable(key, value, true) on a Unix-like system          *)
(***************************************************************************)
exportLine(key, value) == <<EXPORT, SP, key, EQ, QUOTE, value, QUOTE>>

\* the content written to the shell config file
setProfileContent(file, key, value) ==
    LET line == exportLine(key, value)
        content == file.text
        regex == Table(content, LAMBDA t, i : setRegex(t, i, key))
        section == Table(content, megallmSectionRegex)
    IN IF file.exists
       THEN IF Test(regex)
            THEN ReplaceAll(content, regex, line, 1)
            ELSE IF HDR \notin Range(content)
                 THEN content \o <<NL, HDR, NL>> \o line \o <<NL>>
                 ELSE IF Test(section)
                      THEN ReplaceFirst(content, section, <<DOLLARAMP>> \o line \o <<NL>>)
                      ELSE content \o line \o <<NL>>
       ELSE <<HDR, NL>> \o line \o <<NL>>

setEnvironmentVariable(key, value) ==
    LET f == getShellConfigFile(shell)
    IN /\ penv' = [penv EXCEPT ![key] = value]
       /\ IF f \in ioFail
          THEN /\ fs' = fs
               /\ setOk' = FALSE
          ELSE /\ fs' = [fs EXCEPT ![f] = File(setProfileContent(fs[f], key, value))]
               /\ setOk' = TRUE

(***************************************************************************)
(* removeEnvVars() on a Unix-like system                                   *)
(***************************************************************************)
NumPatterns == 4

patternEnd(p, s, i, V) ==
    CASE p = 1 -> pattern1(s, i, V)
      [] p = 2 -> pattern2(s, i, V)
      [] p = 3 -> pattern3(s, i, V)
      [] OTHER -> pattern4(s, i, V)

\* the two nested loops over variables and patterns, from step n on
RECURSIVE applyPatterns(_, _, _)
applyPatterns(content, modified, n) ==
    IF n > Len(ManagedVars) * NumPatterns
    THEN [text |-> content, modified |-> modified]
    ELSE LET V == ManagedVars[((n - 1) \div NumPatterns) + 1]
             p == ((n - 1) % NumPatterns) + 1
             m == Table(content, LAMBDA t, i : patternEnd(p, t, i, V))
         IN IF Test(m)
            THEN applyPatterns(ReplaceAll(content, m, <<>>, 1), TRUE, n + 1)
            ELSE applyPatterns(content, modified, n + 1)

\* one shell profile: the patterns, then the empty-block cleanup
cleanProfile(content) ==
    LET r == applyPatterns(content, FALSE, 1)
    IN [text |-> ReplaceAll(r.text, Table(r.text, emptyBlockRegex), <<>>, 1),
        modified |-> r.modified]

RECURSIVE cleanEtc(_, _, _)
cleanEtc(content, modified, n) ==
    IF n > Len(ManagedVars)
    THEN [text |-> content, modified |-> modified]
    ELSE LET m == Table(content, LAMBDA t, i : etcPattern(t, i, ManagedVars[n]))
         IN IF Test(m)
            THEN cleanEtc(ReplaceAll(content, m, <<>>, 1), TRUE, n + 1)
            ELSE cleanEtc(content, modified, n + 1)

\* the loop over configFiles from index n on; a read that throws ends it
RECURSIVE profileLoop(_, _, _)
profileLoop(files, removed, n) ==
    IF n > Len(configFiles)
    THEN [fs |-> files, removed |-> removed, thrown |-> FALSE]
    ELSE LET f == configFiles[n]
         IN IF ~files[f].exists
            THEN profileLoop(files, removed, n + 1)
            ELSE IF f \in ioFail
                 THEN [fs |-> files, removed |-> removed, thrown |-> TRUE]
                 ELSE LET r == cleanProfile(files[f].text)
                      IN IF r.modified
                         THEN profileLoop([files EXCEPT ![f] = File(r.text)],
                                          Append(removed, f), n + 1)
                         ELSE profileLoop(files, removed, n + 1)

\* the /etc/environment step, after the loop over the profiles returned l
\* and with e the cleaned text
etcEnvironment(l, e) ==
    IF l.thrown
    THEN [fs |-> l.fs, removed |-> l.removed, thrown |-> TRUE, errors |-> <<>>]
    ELSE IF ~l.fs[EtcEnvironment].exists
         THEN [fs |-> l.fs, removed |-> l.removed, thrown |-> FALSE, errors |-> <<>>]
         ELSE IF EtcEnvironment \in ioFail
              THEN [fs |-> l.fs, removed |-> l.removed, thrown |-> FALSE,
                    errors |-> <<"Could not modify /etc/environment">>]
              ELSE IF e.modified
                   THEN [fs |-> [l.fs EXCEPT ![EtcEnvironment] = File(e.text)],
                         removed |-> Append(l.removed, EtcEnvironment),
                         thrown |-> FALSE, errors |-> <<>>]
                   ELSE [fs |-> l.fs, removed |-> l.removed, thrown |-> FALSE,
                         errors |-> <<>>]

afterProfiles(l) == etcEnvironment(l, cleanEtc(l.fs[EtcEnvironment].text, FALSE, 1))

removeUnixEnvVars(removed) == afterProfiles(profileLoop(fs, removed, 1))

\* the process.env loop: the removed entries it records
RECURSIVE processRemoved(_)
processRemoved(n) ==
    IF n > Len(ManagedVars) THEN <<>>
    ELSE (IF penv[ManagedVars[n]] # NoValue THEN <<"Current process">> ELSE <<>>)
         \o processRemoved(n + 1)

removeEnvVars ==
    LET u == removeUnixEnvVars(processRemoved(1))
    IN /\ penv' = [v \in VarNames |-> NoValue]
       /\ fs' = u.fs
       /\ results' = [success |-> ~u.thrown,
                      removed |-> u.removed,
                      errors |-> IF u.thrown THEN <<"EACCES: permission denied">>
                                 ELSE u.errors]

(***************************************************************************)
(* detectExistingEnvVars() on a Unix-like system: the entries with source  *)
(* 'config_file'                                                           *)
(***************************************************************************)
\* detectUnixEnvVars: shellConfigs (not macOS)
shellConfigs ==
    <<".bashrc", ".bash_profile", ".zshrc", ".zprofile", ".config/fish/config.fish",
      EtcEnvironment, ".profile">>

POWERSHELL_ENV == "$env:"

\* \s*["']?([^"'\n]+) from a: some split of the whitespace leaves a
\* character that is neither a quote nor a newline for the value
detectValue(s, a) ==
    a > 0 /\ \E j \in a..SkipWS(s, a) :
                 \E q \in {j} \cup (IF At(s, j, QUOTE) THEN {j + 1} ELSE {}) :
                     q <= Len(s) /\ s[q] \notin {QUOTE, NL}

\* /export\s+V\s*=\s*["']?([^"'\n]+)["']?/g
detectExport(s, i, V) ==
    LET j == ExportVar(s, i, V)
    IN j > 0 /\ detectValue(s, AssignVar(s, j - 1, V))

\* /V\s*=\s*["']?([^"'\n]+)["']?/g
detectAssign(s, i, V) == detectValue(s, AssignVar(s, i, V))

\* /\$env:V\s*=\s*["']?([^"'\n]+)["']?/g
detectPowerShell(s, i, V) == At(s, i, POWERSHELL_ENV) /\ detectValue(s, AssignVar(s, i + 1, V))

\* /set\s+V\s*=\s*["']?([^"'\n]+)["']?/g
detectSet(s, i, V) ==
    /\ At(s, i, SETW)
    /\ SkipWS(s, i + 1) > i + 1
    /\ detectValue(s, AssignVar(s, SkipWS(s, i + 1), V))

\* checkFileForEnvVars pushes an entry for V
checkFileForEnvVars(content, V) ==
    \E i \in 1..Len(content) :
        \/ detectExport(content, i, V)
        \/ detectAssign(content, i, V)
        \/ detectPowerShell(content, i, V)
        \/ detectSet(content, i, V)

\* detectUnixEnvVars: the files with a 'config_file' entry for V; a file
\* that cannot be read is passed over
detectUnixEnvVars(files, V) ==
    {f \in Range(shellConfigs) :
        files[f].exists /\ f \notin ioFail /\ checkFileForEnvVars(files[f].text, V)}

(***************************************************************************)
(* Configuration files                                                     *)
(***************************************************************************)
CONFIG_PATHS ==
    [claude |-> [user |-> "~/.claude/settings.json",
                 project |-> ".claude/settings.json",
                 projectLocal |-> ".claude/settings.local.json"],
     codex |-> [user |-> "~/.codex/config.toml",
                project |-> ".codex/config.toml"],
     opencode |-> [user |-> "~/.config/opencode/opencode.json",
                   project |-> "opencode.json"]]

ConfigPaths ==
    {CONFIG_PATHS.claude.user, CONFIG_PATHS.claude.project, CONFIG_PATHS.claude.projectLocal,
     CONFIG_PATHS.codex.user, CONFIG_PATHS.codex.project,
     CONFIG_PATHS.opencode.user, CONFIG_PATHS.opencode.project}

backupPath(filePath) == filePath \o ".bak"

\* the script isStatuslineConfigured() looks for
STATUSLINE_SCRIPT == "~/.config/claude/statusline.sh"

DiskPaths == ConfigPaths \cup {backupPath(p) : p \in ConfigPaths} \cup {STATUSLINE_SCRIPT}

NoFile == [exists |-> FALSE, corrupt |-> FALSE, data |-> Undefined]

Stored(data) == [exists |-> TRUE, corrupt |-> FALSE, data |-> data]

Corrupt == [exists |-> TRUE, corrupt |-> TRUE, data |-> Undefined]

getConfigPath(d, tool, level) ==
    IF tool = "claude"
    THEN IF level = "system" THEN CONFIG_PATHS.claude.user
         ELSE IF d[CONFIG_PATHS.claude.projectLocal].exists
              THEN CONFIG_PATHS.claude.projectLocal
              ELSE CONFIG_PATHS.claude.project
    ELSE IF tool = "codex"
         THEN IF level = "system" THEN CONFIG_PATHS.codex.user ELSE CONFIG_PATHS.codex.project
         ELSE IF level = "system" THEN CONFIG_PATHS.opencode.user
              ELSE CONFIG_PATHS.opencode.project

\* JSON.stringify: a property whose value is undefined is left out, an
\* undefined array element is written as null; the key order is kept
RECURSIVE jsonStringify(_)
\* a serialiser that leaves out null properties as well
jsonStringifyDropsNull(v) ==
    CASE TypeTag(v) = "object" ->
             LET kept == SelectSeq(Entries(v), LAMBDA e : e[2] \notin {Undefined, Null})
             IN Obj([n \in 1..Len(kept) |-> <<kept[n][1], jsonStringify(kept[n][2])>>])
      [] TypeTag(v) = "array" ->
             Arr([n \in 1..Len(v[2]) |->
                     IF v[2][n] = Undefined THEN Null ELSE jsonStringify(v[2][n])])
      [] OTHER -> v

jsonStringify(v) ==
    CASE TypeTag(v) = "object" ->
             LET kept == SelectSeq(Entries(v), LAMBDA e : e[2] # Undefined)
             IN Obj([n \in 1..Len(kept) |-> <<kept[n][1], jsonStringify(kept[n][2])>>])
      [] TypeTag(v) = "array" ->
             Arr([n \in 1..Len(v[2]) |->
                     IF v[2][n] = Undefined THEN Null ELSE jsonStringify(v[2][n])])
      [] OTHER -> v

\* JSON.parse of a text that JSON.stringify wrote
jsonParse(text) == text

\* @iarna/toml isInline
tomlIsInline(v) ==
    CASE TypeTag(v) = "object" -> Len(Entries(v)) = 0
      [] TypeTag(v) = "array" -> Len(v[2]) = 0 \/ TypeTag(v[2][1]) # "object"
      [] OTHER -> TRUE

\* TOML.stringify: null and undefined values are left out; in every table
\* the inline values are written first, the sub-tables after them
RECURSIVE tomlStringify(_)
tomlStringify(v) ==
    CASE TypeTag(v) = "object" ->
             LET kept == SelectSeq(Entries(v), LAMBDA e : e[2] \notin {Undefined, Null})
                 inline == SelectSeq(kept, LAMBDA e : tomlIsInline(e[2]))
                 complex == SelectSeq(kept, LAMBDA e : ~tomlIsInline(e[2]))
                 order == inline \o complex
             IN Obj([n \in 1..Len(order) |-> <<order[n][1], tomlStringify(order[n][2])>>])
      [] TypeTag(v) = "array" -> Arr([n \in 1..Len(v[2]) |-> tomlStringify(v[2][n])])
      [] OTHER -> v

\* TOML.parse of a text that TOML.stringify wrote
tomlParse(text) == text

\* a readJsonFile that takes a file it cannot parse for a missing one
readJsonFileLenient(d, filePath) ==
    IF ~d[filePath].exists \/ d[filePath].corrupt THEN [threw |-> FALSE, value |-> Null]
    ELSE [threw |-> FALSE, value |-> jsonParse(d[filePath].data)]

readJsonFile(d, filePath) ==
    IF ~d[filePath].exists THEN [threw |-> FALSE, value |-> Null]
    ELSE IF d[filePath].corrupt THEN [threw |-> TRUE, value |-> Undefined]
         ELSE [threw |-> FALSE, value |-> jsonParse(d[filePath].data)]

readTomlFile(d, filePath) ==
    IF ~d[filePath].exists THEN [threw |-> FALSE, value |-> Null]
    ELSE IF d[filePath].corrupt THEN [threw |-> TRUE, value |-> Undefined]
         ELSE [threw |-> FALSE, value |-> tomlParse(d[filePath].data)]

\* the backup copy both writers take first
withBackup(d, filePath, backup) ==
    IF backup /\ d[filePath].exists
    THEN [d EXCEPT ![backupPath(filePath)] = d[filePath]]
    ELSE d

writeFile(d, filePath, text) ==
    IF filePath \in roPaths
    THEN [disk |-> d, threw |-> TRUE]
    ELSE [disk |-> [d EXCEPT ![filePath] = Stored(text)], threw |-> FALSE]

writeJsonFile(d, filePath, data, backup) ==
    writeFile(withBackup(d, filePath, backup), filePath, jsonStringify(data))

\* TOML.stringify throws on an array whose elements are of several types
RECURSIVE tomlMixed(_)
tomlMixed(v) ==
    CASE TypeTag(v) = "object" -> \E n \in 1..Len(Entries(v)) : tomlMixed(Entries(v)[n][2])
      [] TypeTag(v) = "array" ->
             \/ \E n \in 1..Len(v[2]) : TypeTag(v[2][n]) # TypeTag(v[2][1])
             \/ \E n \in 1..Len(v[2]) : tomlMixed(v[2][n])
      [] OTHER -> FALSE

writeTomlFile(d, filePath, data, backup) ==
    IF tomlMixed(data)
    THEN [disk |-> withBackup(d, filePath, backup), threw |-> TRUE]
    ELSE writeFile(withBackup(d, filePath, backup), filePath, tomlStringify(data))

(***************************************************************************)
(* The configurators                                                       *)
(***************************************************************************)
\* str.slice(-20) of the model's API keys
getLastNCharacters(str) ==
    CASE str = "sk-key-1" -> "key-1"
      [] str = "sk-key-2" -> "key-2"
      [] OTHER -> str

GitignorePattern == ".claude/settings.local.json"

addToGitignore(g, pattern) ==
    IF pattern \in Range(g.text) THEN g
    ELSE File(g.text \o <<NL, HDR, NL, pattern, NL>>)

\* a configurator that appends the suffix to the approvals already stored
claudeNewConfigAppends(existingConfig, apiKey) ==
    LET env == Put(Put(Spread2(Get(existingConfig, "env"), EmptyObj),
                       "ANTHROPIC_BASE_URL", Str(MEGALLM_BASE_URL)),
                   "ANTHROPIC_API_KEY", Str(apiKey))
        stored == Get(Get(existingConfig, "customApiKeyResponses"), "approved")
        approved == IF TypeTag(stored) = "array" THEN stored[2] ELSE <<>>
        approvals == Obj(<< <<"approved",
                              Arr(Append(approved, Str(getLastNCharacters(apiKey))))>>,
                            <<"rejected", Arr(<<>>)>> >>)
    IN Obj(<< <<"env", env>>, <<"customApiKeyResponses", approvals>> >>)

\* the object configureClaude merges into the existing configuration
claudeNewConfig(existingConfig, apiKey) ==
    LET env == Put(Put(Spread2(Get(existingConfig, "env"), EmptyObj),
                       "ANTHROPIC_BASE_URL", Str(MEGALLM_BASE_URL)),
                   "ANTHROPIC_API_KEY", Str(apiKey))
        approvals == Obj(<< <<"approved", Arr(<<Str(getLastNCharacters(apiKey))>>)>>,
                            <<"rejected", Arr(<<>>)>> >>)
    IN Obj(<< <<"env", env>>, <<"customApiKeyResponses", approvals>> >>)

\* configureClaude(apiKey, level): the disk and .gitignore it leaves and
\* the value it returns
configureClaude(d, g, apiKey, level) ==
    LET configPath == getConfigPath(d, "claude", level)
        read == readJsonFile(d, configPath)
        existingConfig == IF Truthy(read.value) THEN read.value ELSE EmptyObj
        finalConfig == mergeJsonConfig(existingConfig, claudeNewConfig(existingConfig, apiKey))
        w == writeJsonFile(d, configPath, finalConfig, TRUE)
    IN IF read.threw THEN [disk |-> d, gitignore |-> g, ok |-> FALSE]
       ELSE IF w.threw THEN [disk |-> w.disk, gitignore |-> g, ok |-> FALSE]
            ELSE [disk |-> w.disk,
                  gitignore |-> IF level = "project"
                                   /\ configPath = CONFIG_PATHS.claude.projectLocal
                                THEN addToGitignore(g, GitignorePattern) ELSE g,
                  ok |-> TRUE]

megallmProvider ==
    Obj(<< <<"name", Str("OpenAI using Chat Completions")>>,
           <<"base_url", Str("https://ai.megallm.io/v1")>>,
           <<"env_key", Str("MEGALLM_API_KEY")>>,
           <<"query_params", EmptyObj>> >>)

\* a configurator that writes the megallm provider alone
codexNewConfigOwnProvider(existing) ==
    LET e == IF Truthy(Get(existing, "model_provider"))
             THEN Delete(existing, "model_provider") ELSE existing
        c == Put(Put(Put(Spread2(e, EmptyObj), "model_provider", Str("megallm")),
                     "model", Str("gpt-5")),
                 "model_providers", Obj(<< <<"megallm", megallmProvider>> >>))
    IN Delete(Delete(c, "api"), "auth")

\* newConfig of configureCodex up to the tools section
codexNewConfig(existing) ==
    LET e == IF Truthy(Get(existing, "model_provider"))
             THEN Delete(existing, "model_provider") ELSE existing
        providers == Put(Spread2(Get(e, "model_providers"), EmptyObj), "megallm", megallmProvider)
        c == Put(Put(Put(Spread2(e, EmptyObj), "model_provider", Str("megallm")),
                     "model", Str("gpt-5")),
                 "model_providers", providers)
    IN Delete(Delete(c, "api"), "auth")

\* a configureCodex that follows its level argument
codexConfigPathAtLevel(d, level) == getConfigPath(d, "codex", level)

\* configureCodex: configPath, the system path whatever the level
codexConfigPath(d, level) == getConfigPath(d, "codex", "system")

\* configureCodex(apiKey, level): the disk it leaves and the value it
\* returns.  A tools value that is truthy and not an object makes the
\* property assignment throw (module code is strict).
configureCodex(d, apiKey, level) ==
    LET configPath == codexConfigPath(d, level)
        read == readTomlFile(d, configPath)
        existingConfig == IF Truthy(read.value) THEN read.value ELSE EmptyObj
        c == codexNewConfig(existingConfig)
        withTools == IF Truthy(Get(c, "tools")) THEN c ELSE Put(c, "tools", EmptyObj)
        tools == Put(Put(Get(withTools, "tools"), "web_search", Bool(TRUE)),
                     "file_browser", Bool(TRUE))
        newConfig == Put(withTools, "tools", tools)
        w == writeTomlFile(d, configPath, newConfig, TRUE)
    IN IF read.threw \/ ~IsPlainObject(Get(withTools, "tools"))
       THEN [disk |-> d, ok |-> FALSE]
       ELSE [disk |-> w.disk, ok |-> ~w.threw]

\* what fetchMegaLLMModels returns when the request fails
FallbackModels ==
    Obj(<< <<"gpt-5", Obj(<< <<"id", Str("gpt-5")>>, <<"name", Str("GPT-5 (Via MegaLLM)")>> >>)>>,
           <<"gpt-4o", Obj(<< <<"id", Str("gpt-4o")>>, <<"name", Str("GPT-4o (Via MegaLLM)")>> >>)>>,
           <<"gpt-4o-mini", Obj(<< <<"id", Str("gpt-4o-mini")>>,
                                   <<"name", Str("GPT-4o Mini (Via MegaLLM)")>> >>)>> >>)

\* the object configureOpenCode merges into the existing configuration
openCodeNewConfig(existingConfig, models) ==
    LET options == Obj(<< <<"apiKey", Str("{env:MEGALLM_API_KEY}")>>,
                          <<"baseURL", Str("https://ai.megallm.io/v1")>> >>)
        provider == Put(Spread2(Get(existingConfig, "provider"), EmptyObj), "anthropic",
                        Obj(<< <<"models", models>>, <<"options", options>> >>))
        autoupdate == IF Get(existingConfig, "autoupdate") \in {Undefined, Null}
                      THEN Bool(TRUE) ELSE Get(existingConfig, "autoupdate")
        tools == PutAll(Spread2(Get(existingConfig, "tools"), EmptyObj),
                        << <<"bash", Bool(TRUE)>>, <<"edit", Bool(TRUE)>>,
                           <<"write", Bool(TRUE)>>, <<"read", Bool(TRUE)>> >>)
    IN Obj(<< <<"$schema", Str("https://opencode.ai/config.json")>>,
              <<"provider", provider>>, <<"autoupdate", autoupdate>>, <<"tools", tools>> >>)

\* configureOpenCode(apiKey, level): the disk and .gitignore it leaves and
\* the value it returns
configureOpenCode(d, g, key, level) ==
    LET configPath == getConfigPath(d, "opencode", level)
        read == readJsonFile(d, configPath)
        existingConfig == IF Truthy(read.value) THEN read.value ELSE EmptyObj
        finalConfig == mergeJsonConfig(existingConfig,
                                       openCodeNewConfig(existingConfig, FallbackModels))
        w == writeJsonFile(d, configPath, finalConfig, TRUE)
    IN IF read.threw THEN [disk |-> d, gitignore |-> g, ok |-> FALSE]
       ELSE IF w.threw THEN [disk |-> w.disk, gitignore |-> g, ok |-> FALSE]
            ELSE [disk |-> w.disk,
                  gitignore |-> IF level = "project"
                                THEN addToGitignore(g, CONFIG_PATHS.opencode.project) ELSE g,
                  ok |-> TRUE]

\* str.includes('megallm') over the strings of the model
IncludesMegallm(v) ==
    TypeTag(v) = "string" /\ v[2] \in {MEGALLM_BASE_URL, "https://ai.megallm.io/v1", "megallm"}

\* checkExistingCodexConfig(): whether the read threw, and hasConfig
checkExistingCodexConfig(d) ==
    LET read == readTomlFile(d, getConfigPath(d, "codex", "system"))
        c == read.value
    IN [threw |-> read.threw,
        hasConfig |-> /\ ~read.threw
                      /\ \/ Get(c, "model_provider") = Str("megallm")
                         \/ Truthy(Get(Get(c, "model_providers"), "megallm"))
                         \/ IncludesMegallm(Get(Get(c, "api"), "base_url")),
        config |-> c]

\* removeConfigurationFiles: what is left of one Claude configuration
cleanClaudeConfig(config) ==
    LET env == Delete(Delete(Get(config, "env"), "ANTHROPIC_BASE_URL"), "ANTHROPIC_API_KEY")
        c1 == IF ~Truthy(Get(config, "env")) THEN config
              ELSE IF Len(Entries(env)) = 0 THEN Delete(config, "env")
                   ELSE Put(config, "env", env)
        responses == Get(c1, "customApiKeyResponses")
    IN IF Truthy(Get(responses, "approved"))
       THEN Put(c1, "customApiKeyResponses", Put(responses, "approved", Arr(<<>>)))
       ELSE c1

\* removeConfigurationFiles: what is left of the Codex configuration
cleanCodexConfig(config) ==
    LET c1 == IF Get(config, "model_provider") = Str("megallm")
              THEN Delete(config, "model_provider") ELSE config
    IN IF Truthy(Get(Get(c1, "model_providers"), "megallm"))
       THEN Put(c1, "model_providers", Delete(Get(c1, "model_providers"), "megallm"))
       ELSE c1

ClaudePaths ==
    <<CONFIG_PATHS.claude.user, CONFIG_PATHS.claude.project, CONFIG_PATHS.claude.projectLocal>>

\* one Claude configuration cleaned: removed when nothing is left of it
cleanedClaudeFile(d, path, config) ==
    IF path \in roPaths THEN d
    ELSE IF Len(Entries(config)) = 0 THEN [d EXCEPT ![path] = NoFile]
         ELSE [d EXCEPT ![path] = Stored(jsonStringify(config))]

claudeCleanup(path, rest) ==
    [disk |-> rest.disk,
     errors |-> (IF path \in roPaths THEN <<path>> ELSE <<>>) \o rest.errors]

\* the loop of removeConfigurationFiles over the Claude configurations
\* found (configs), from index n on
RECURSIVE cleanClaudeFiles(_, _, _)
cleanClaudeFiles(d, configs, n) ==
    IF n > Len(ClaudePaths) THEN [disk |-> d, errors |-> <<>>]
    ELSE IF ClaudePaths[n] \notin configs THEN cleanClaudeFiles(d, configs, n + 1)
         ELSE claudeCleanup(ClaudePaths[n],
                            cleanClaudeFiles(
                                cleanedClaudeFile(d, ClaudePaths[n],
                                                  cleanClaudeConfig(d[ClaudePaths[n]].data)),
                                configs, n + 1))

\* the Codex part of removeConfigurationFiles, after the Claude part
codexCleanup(claude, codex, path) ==
    IF codex.threw
    THEN [disk |-> claude.disk, errors |-> Append(claude.errors, "cleanup failed")]
    ELSE IF ~codex.hasConfig THEN claude
         ELSE IF path \in roPaths
              THEN [disk |-> claude.disk, errors |-> Append(claude.errors, path)]
              ELSE [disk |-> [claude.disk EXCEPT
                                 ![path] = Stored(tomlStringify(cleanCodexConfig(codex.config)))],
                    errors |-> claude.errors]

afterClaudeCleanup(d, claude) ==
    codexCleanup(claude, checkExistingCodexConfig(claude.disk), getConfigPath(d, "codex", "system"))

\* removeConfigurationFiles(): the disk it leaves and the errors it returns;
\* configs are the Claude configurations checkExistingClaudeConfig found
removeConfigurationFiles(d, configs) ==
    afterClaudeCleanup(d, cleanClaudeFiles(d, configs, 1))

ConfigIdle ==
    /\ disk = [p \in DiskPaths |-> NoFile]
    /\ gitignore = Absent
    /\ roPaths = {}
    /\ cfgOk = TRUE
    /\ readResult = Null
    /\ prevDisk = disk
    /\ cfgHist = <<>>

\* checkExistingConfiguration() has not run
NotChecked == [envVars |-> <<>>, hasBaseUrl |-> FALSE, baseUrlValue |-> <<>>,
               isConfigured |-> FALSE]

\* no API key has been detected
NoEntry == [source |-> "", value |-> <<>>, rawValue |-> <<>>]

\* no interrupt has arrived
NoSignal == [sig |-> "", at |-> <<>>]

MainIdle ==
    /\ pc = "idle"
    /\ exitCode = 0
    /\ printed = {}
    /\ installed = {}
    /\ selectedTool = ""
    /\ setupLevel = ""
    /\ keyInput = ""
    /\ ran = <<>>
    /\ envCalls = <<>>
    /\ attempts = 0
    /\ cause = ""
    /\ installChoice = ""
    /\ pending = NoSignal
    /\ initDisk = <<>>
    /\ typed = ""
    /\ checked = NotChecked
    /\ keyEntry = NoEntry

(***************************************************************************)
(* Profile contents the model starts from                                  *)
(***************************************************************************)
ProfilePool ==
    { <<TEXT>>,
      <<>>,
      <<HDR>>,
      <<EXPORT, SP, "ANTHROPIC_API_KEY", EQ, QUOTE, "sk-key-1", QUOTE>>,
      <<EXPORT, SP, OTHERVAR, EQ, TEXT>> }

LinePool ==
    ProfilePool \cup
    { <<EXPORT, SP, "ANTHROPIC_API_KEY", SUFFIX, EQ, "sk-key-1">>,
      <<"ANTHROPIC_API_KEY", EQ, "sk-key-1">>,
      <<SETW, SP, MINUSX, SP, "ANTHROPIC_API_KEY", SP, "sk-key-1">>,
      <<SETW, SP, MINUSX, SP, "ANTHROPIC_API_KEY", SUFFIX, SP, "sk-key-1">>,
      <<TEXT, SP, EXPORT, SP, "MEGALLM_API_KEY", EQ, "sk-key-2">> }

EtcPool ==
    { <<OTHERVAR, EQ, TEXT>>,
      <<"ANTHROPIC_BASE_URL", EQ, MEGALLM_BASE_URL>>,
      <<PREFIX, "ANTHROPIC_BASE_URL", EQ, MEGALLM_BASE_URL>> }

RECURSIVE Join(_)
Join(lines) ==
    IF lines = <<>> THEN <<>> ELSE Head(lines) \o <<NL>> \o Join(Tail(lines))

LineSeqs(pool) == UNION {[1..n -> pool] : n \in 0..MaxLines}

\* every line terminated, or the last one not
Contents(pool) ==
    {Join(ls) : ls \in LineSeqs(pool)}
    \cup {SubSeq(Join(ls), 1, Len(Join(ls)) - 1) : ls \in LineSeqs(pool) \ {<<>>}}

FileStates(pool) == {Absent} \cup {File(c) : c \in Contents(pool)}

OtherProfileStates ==
    { Absent,
      File(<<TEXT, NL>>),
      File(<<TEXT, NL, NL, HDR, NL>> \o exportLine("MEGALLM_API_KEY", "sk-key-2") \o <<NL>>) }

EmptyResults == [success |-> TRUE, removed |-> <<>>, errors |-> <<>>]

ProfileIdle ==
    /\ fs = [f \in Files |-> Absent]
    /\ penv = [v \in VarNames |-> NoValue]
    /\ shell = "bash"
    /\ ioFail = {}
    /\ results = EmptyResults
    /\ setOk = TRUE
    /\ prevFs = fs
    /\ initFs = fs
    /\ hist = <<>>

(***************************************************************************)
(* SpecProfile: any sequence of setEnvironmentVariable and removeEnvVars   *)
(* calls on the user's shell profile                                       *)
(***************************************************************************)
InitProfile ==
    /\ shell \in {"bash", "zsh"}
    /\ \E p \in FileStates(ProfilePool) :
           fs = [f \in Files |-> IF f = getShellConfigFile(shell) THEN p ELSE Absent]
    /\ penv = [v \in VarNames |-> NoValue]
    /\ ioFail = {}
    /\ results = EmptyResults
    /\ setOk = TRUE
    /\ prevFs = fs
    /\ initFs = fs
    /\ hist = <<>>
    /\ MergeIdle
    /\ ConfigIdle
    /\ MainIdle

SetVar(key, value) ==
    /\ Len(hist) < MaxOps
    /\ setEnvironmentVariable(key, value)
    /\ prevFs' = fs
    /\ hist' = Append(hist, [op |-> "set", key |-> key, value |-> value])
    /\ UNCHANGED <<shell, ioFail, results, initFs>>
    /\ UNCHANGED notProfile

SetBaseUrl == SetVar("ANTHROPIC_BASE_URL", MEGALLM_BASE_URL)

SetAnthropicKey == \E k \in ApiKeys : SetVar("ANTHROPIC_API_KEY", k)

SetMegallmKey == \E k \in ApiKeys : SetVar("MEGALLM_API_KEY", k)

RemoveVars ==
    /\ Len(hist) < MaxOps
    /\ removeEnvVars
    /\ prevFs' = fs
    /\ hist' = Append(hist, [op |-> "remove", key |-> "", value |-> ""])
    /\ UNCHANGED <<shell, ioFail, setOk, initFs>>
    /\ UNCHANGED notProfile

NextProfile == SetBaseUrl \/ SetAnthropicKey \/ SetMegallmKey \/ RemoveVars

SpecProfile == InitProfile /\ [][NextProfile]_vars

(***************************************************************************)
(* SpecRemove: one removeEnvVars() call over several profiles and          *)
(* /etc/environment, some of which may be unreadable                       *)
(***************************************************************************)
InitRemove ==
    /\ shell = "bash"
    /\ \E b \in FileStates(LinePool), p \in OtherProfileStates,
          e \in {Absent} \cup {File(Join(<<l>>)) : l \in EtcPool} :
           fs = [f \in Files |-> CASE f = ".bashrc" -> b
                                   [] f = ".profile" -> p
                                   [] f = EtcEnvironment -> e
                                   [] OTHER -> Absent]
    /\ \E k \in {NoValue, "sk-key-1"} :
           penv = [v \in VarNames |-> IF v = "ANTHROPIC_API_KEY" THEN k ELSE NoValue]
    /\ ioFail \in {{}, {".bashrc"}, {".profile"}, {EtcEnvironment}}
    /\ results = EmptyResults
    /\ setOk = TRUE
    /\ prevFs = fs
    /\ initFs = fs
    /\ hist = <<>>
    /\ MergeIdle
    /\ ConfigIdle
    /\ MainIdle

RemoveOnce ==
    /\ hist = <<>>
    /\ removeEnvVars
    /\ prevFs' = fs
    /\ hist' = Append(hist, [op |-> "remove", key |-> "", value |-> ""])
    /\ UNCHANGED <<shell, ioFail, setOk, initFs>>
    /\ UNCHANGED notProfile

NextRemove == RemoveOnce

SpecRemove == InitRemove /\ [][NextRemove]_vars

(***************************************************************************)
(* SpecConfig: runs of configureClaude and configureCodex over existing    *)
(* configuration files                                                     *)
(***************************************************************************)
MaxRuns == 2

Levels == {"system", "project"}

ConfigKeys == {"sk-key-1", "sk-key-2"}

ClaudeEnvs ==
    { Undefined,
      Obj(<< <<"ANTHROPIC_API_KEY", Str("sk-key-2")>>,
             <<"ANTHROPIC_BASE_URL", Str("https://api.anthropic.com")>> >>),
      Obj(<< <<"HTTP_PROXY", Str("http://proxy")>> >>) }

ClaudeApprovals ==
    { Undefined,
      Obj(<< <<"approved", Arr(<<Str("key-9")>>)>>, <<"rejected", Arr(<<Str("key-8")>>)>> >>),
      Obj(<< <<"approved", Arr(<<Str("key-1")>>)>>, <<"rejected", Arr(<<>>)>> >>) }

ClaudeThemes == {Undefined, Str("dark")}

\* settings.json files as JSON.stringify writes them
ClaudeFiles ==
    {NoFile, Corrupt}
    \cup { Stored(jsonStringify(Obj(<< <<"theme", t>>, <<"customApiKeyResponses", a>>,
                                       <<"env", e>> >>)))
           : t \in ClaudeThemes, a \in ClaudeApprovals, e \in ClaudeEnvs }

CodexProviderNames == {Undefined, Str("megallm"), Str("openai")}

CodexProviders ==
    { Undefined,
      Obj(<< <<"openai", Obj(<< <<"name", Str("OpenAI")>> >>)>> >>),
      Obj(<< <<"megallm", Obj(<< <<"name", Str("old")>> >>)>>,
             <<"openai", Obj(<< <<"name", Str("OpenAI")>> >>)>> >>) }

CodexTools ==
    { Undefined,
      Obj(<< <<"web_search", Bool(FALSE)>>, <<"shell", Bool(TRUE)>> >>),
      Bool(FALSE),
      Str("all") }

CodexApis == {Undefined, Obj(<< <<"base_url", Str("https://api.openai.com")>> >>)}

CodexModels == {Undefined, Str("gpt-4")}

CodexPolicies == {Undefined, Str("never")}

\* config.toml files as TOML.stringify writes them
CodexFiles ==
    {NoFile, Corrupt}
    \cup { Stored(tomlStringify(Obj(<< <<"approval_policy", ap>>, <<"model_provider", mp>>,
                                       <<"model", m>>, <<"tools", t>>, <<"api", a>>,
                                       <<"auth", a>>, <<"model_providers", ps>> >>)))
           : ap \in CodexPolicies, mp \in CodexProviderNames, m \in CodexModels,
             t \in CodexTools, a \in CodexApis, ps \in CodexProviders }

DiskWith(path, file) == [p \in DiskPaths |-> IF p = path THEN file ELSE NoFile]

InitialDisks ==
    {DiskWith(CONFIG_PATHS.claude.user, f) : f \in ClaudeFiles}
    \cup {DiskWith(CONFIG_PATHS.claude.project, f) : f \in ClaudeFiles}
    \cup {DiskWith(CONFIG_PATHS.claude.projectLocal, f) : f \in ClaudeFiles}
    \cup {DiskWith(CONFIG_PATHS.codex.user, f) : f \in CodexFiles}

InitConfig ==
    /\ disk \in InitialDisks
    /\ gitignore \in {Absent, File(<<TEXT, NL>>)}
    /\ roPaths \in {{}, {CONFIG_PATHS.claude.user}, {CONFIG_PATHS.codex.user}}
    /\ cfgOk = TRUE
    /\ readResult = Null
    /\ prevDisk = disk
    /\ cfgHist = <<>>
    /\ ProfileIdle
    /\ MergeIdle
    /\ MainIdle

Run(op, apiKey, level, path, data) ==
    [op |-> op, key |-> apiKey, level |-> level, path |-> path, data |-> data]

ConfigureClaude ==
    \E apiKey \in ConfigKeys, level \in Levels :
        LET r == configureClaude(disk, gitignore, apiKey, level)
        IN /\ Len(cfgHist) < MaxRuns
           /\ disk' = r.disk
           /\ gitignore' = r.gitignore
           /\ cfgOk' = r.ok
           /\ prevDisk' = disk
           /\ cfgHist' = Append(cfgHist, Run("configureClaude", apiKey, level,
                                             getConfigPath(disk, "claude", level), Null))
           /\ UNCHANGED <<roPaths, readResult>>
           /\ UNCHANGED notConfig

ConfigureCodex ==
    \E apiKey \in ConfigKeys, level \in Levels :
        LET r == configureCodex(disk, apiKey, level)
        IN /\ Len(cfgHist) < MaxRuns
           /\ disk' = r.disk
           /\ cfgOk' = r.ok
           /\ prevDisk' = disk
           /\ cfgHist' = Append(cfgHist, Run("configureCodex", apiKey, level,
                                             codexConfigPath(disk, level), Null))
           /\ UNCHANGED <<gitignore, roPaths, readResult>>
           /\ UNCHANGED notConfig

NextConfig == ConfigureClaude \/ ConfigureCodex

SpecConfig == InitConfig /\ [][NextConfig]_vars

(***************************************************************************)
(* SpecCleanup: removeConfigurationFiles() over existing configuration     *)
(* files                                                                   *)
(***************************************************************************)
CleanupApis ==
    CodexApis \cup {Obj(<< <<"base_url", Str("https://ai.megallm.io/v1")>> >>)}

CleanupCodexFiles ==
    {NoFile, Corrupt}
    \cup { Stored(tomlStringify(Obj(<< <<"approval_policy", ap>>, <<"model_provider", mp>>,
                                       <<"api", a>>, <<"model_providers", ps>> >>)))
           : ap \in CodexPolicies, mp \in CodexProviderNames, a \in CleanupApis,
             ps \in CodexProviders }

CleanupClaudeFiles ==
    { NoFile,
      Stored(Obj(<< <<"env", Obj(<< <<"ANTHROPIC_BASE_URL", Str(MEGALLM_BASE_URL)>>,
                                    <<"ANTHROPIC_API_KEY", Str("sk-key-1")>> >>)>> >>)),
      Stored(Obj(<< <<"theme", Str("dark")>>,
                    <<"env", Obj(<< <<"ANTHROPIC_BASE_URL", Str(MEGALLM_BASE_URL)>> >>)>> >>)),
      Stored(Obj(<< <<"env", Obj(<< <<"ANTHROPIC_BASE_URL", Str(MEGALLM_BASE_URL)>>,
                                    <<"ANTHROPIC_API_KEY", Str("sk-key-1")>>,
                                    <<"HTTP_PROXY", Str("http://proxy")>> >>)>>,
                    <<"customApiKeyResponses",
                      Obj(<< <<"approved", Arr(<<Str("key-9"), Str("key-1")>>)>>,
                             <<"rejected", Arr(<<Str("key-8")>>)>> >>)>> >>)) }

InitCleanup ==
    /\ \E c \in CleanupClaudeFiles, x \in CleanupCodexFiles :
           disk = [p \in DiskPaths |-> CASE p = CONFIG_PATHS.claude.user -> c
                                          [] p = CONFIG_PATHS.codex.user -> x
                                          [] OTHER -> NoFile]
    /\ gitignore = Absent
    /\ roPaths \in {{}, {CONFIG_PATHS.codex.user}}
    /\ cfgOk = TRUE
    /\ readResult = Null
    /\ prevDisk = disk
    /\ cfgHist = <<>>
    /\ ProfileIdle
    /\ MergeIdle
    /\ MainIdle

cleanedUp(r) ==
    /\ disk' = r.disk
    /\ cfgOk' = (r.errors = <<>>)

\* removeConfigurationFiles(), over the Claude configurations
\* checkExistingClaudeConfig reports
RemoveConfigurationFiles ==
    /\ cfgHist = <<>>
    /\ \E configs \in SUBSET {p \in Range(ClaudePaths) : disk[p].exists /\ ~disk[p].corrupt} :
           cleanedUp(removeConfigurationFiles(disk, configs))
    /\ prevDisk' = disk
    /\ cfgHist' = Append(cfgHist, Run("removeConfigurationFiles", "", "",
                                      getConfigPath(disk, "codex", "system"), Null))
    /\ UNCHANGED <<gitignore, roPaths, readResult>>
    /\ UNCHANGED notConfig

NextCleanup == RemoveConfigurationFiles

SpecCleanup == InitCleanup /\ [][NextCleanup]_vars

(***************************************************************************)
(* SpecFiles: writes and reads of the configuration files                  *)
(***************************************************************************)
JsonPaths == {CONFIG_PATHS.claude.user, CONFIG_PATHS.claude.projectLocal}

TomlPaths == {CONFIG_PATHS.codex.user}

JsonData ==
    { EmptyObj,
      Obj(<< <<"theme", Str("dark")>> >>),
      Obj(<< <<"env", Obj(<< <<"ANTHROPIC_API_KEY", Str("sk-key-1")>> >>)>>,
             <<"retries", Num(1)>> >>),
      Obj(<< <<"proxy", Null>>, <<"list", Arr(<<Str("a"), Num(2), Null>>)>> >>),
      Obj(<< <<"a", Obj(<< <<"b", Obj(<< <<"c", Bool(TRUE)>> >>)>> >>)>>,
             <<"flag", Bool(FALSE)>> >>) }

TomlData ==
    { EmptyObj,
      Obj(<< <<"model", Str("gpt-5")>>, <<"tools", Obj(<< <<"web_search", Bool(TRUE)>> >>)>> >>),
      Obj(<< <<"model_providers", Obj(<< <<"megallm", megallmProvider>> >>)>>,
             <<"model", Str("gpt-5")>> >>),
      Obj(<< <<"ports", Arr(<<Num(1), Num(2)>>)>>,
             <<"hosts", Arr(<<Obj(<< <<"name", Str("a")>> >>)>>)>>,
             <<"retries", Num(1)>> >>),
      Obj(<< <<"mixed", Arr(<<Num(1), Str("a")>>)>> >>) }

FileOp(op, path, data, backup, ok) ==
    [op |-> op, path |-> path, data |-> data, backup |-> backup, ok |-> ok]

InitFiles ==
    /\ \E p \in JsonPaths \cup TomlPaths :
       \E f \in {NoFile, Corrupt, Stored(Obj(<< <<"old", Str("x")>> >>))} :
           disk = DiskWith(p, f)
    /\ gitignore = Absent
    /\ roPaths \in {{}, {CONFIG_PATHS.claude.user}}
    /\ cfgOk = TRUE
    /\ readResult = Null
    /\ prevDisk = disk
    /\ cfgHist = <<>>
    /\ ProfileIdle
    /\ MergeIdle
    /\ MainIdle

WriteJson ==
    \E p \in JsonPaths, d \in JsonData, backup \in BOOLEAN :
        LET w == writeJsonFile(disk, p, d, backup)
        IN /\ Len(cfgHist) < MaxRuns
           /\ disk' = w.disk
           /\ cfgOk' = ~w.threw
           /\ prevDisk' = disk
           /\ cfgHist' = Append(cfgHist, FileOp("writeJsonFile", p, d, backup, ~w.threw))
           /\ UNCHANGED <<gitignore, roPaths, readResult>>
           /\ UNCHANGED notConfig

WriteToml ==
    \E p \in TomlPaths, d \in TomlData, backup \in BOOLEAN :
        LET w == writeTomlFile(disk, p, d, backup)
        IN /\ Len(cfgHist) < MaxRuns
           /\ disk' = w.disk
           /\ cfgOk' = ~w.threw
           /\ prevDisk' = disk
           /\ cfgHist' = Append(cfgHist, FileOp("writeTomlFile", p, d, backup, ~w.threw))
           /\ UNCHANGED <<gitignore, roPaths, readResult>>
           /\ UNCHANGED notConfig

ReadJson ==
    \E p \in JsonPaths :
        LET r == readJsonFile(disk, p)
        IN /\ Len(cfgHist) < MaxRuns
           /\ readResult' = r.value
           /\ cfgOk' = ~r.threw
           /\ prevDisk' = disk
           /\ cfgHist' = Append(cfgHist, FileOp("readJsonFile", p, Null, FALSE, ~r.threw))
           /\ UNCHANGED <<disk, gitignore, roPaths>>
           /\ UNCHANGED notConfig

ReadToml ==
    \E p \in TomlPaths :
        LET r == readTomlFile(disk, p)
        IN /\ Len(cfgHist) < MaxRuns
           /\ readResult' = r.value
           /\ cfgOk' = ~r.threw
           /\ prevDisk' = disk
           /\ cfgHist' = Append(cfgHist, FileOp("readTomlFile", p, Null, FALSE, ~r.threw))
           /\ UNCHANGED <<disk, gitignore, roPaths>>
           /\ UNCHANGED notConfig

NextFiles == WriteJson \/ WriteToml \/ ReadJson \/ ReadToml

SpecFiles == InitFiles /\ [][NextFiles]_vars

(***************************************************************************)
(* SpecMain: the interactive flow of main()                                *)
(***************************************************************************)
MaxAttempts == 2

Tools == {"claude", "codex", "opencode"}

SETUP_LEVELS == [PROJECT |-> "Project-level", SYSTEM |-> "System-level"]

MsgFailed == "Configuration failed!"

MsgSuccess == "Setup completed successfully!"

MsgEnvSet == "Environment variables set"

MsgCancelled == "Setup cancelled."

MsgForceClosed == "Setup cancelled. See you next time!"

MsgKeeping == "Keeping existing configuration."

MsgNoTools == "No tools available for configuration."

MsgInstallFailed == "Installation failed. Please install manually:"

MsgError == "Error"

\* the steps at which a prompt is pending
PromptSteps ==
    {"offerInstall", "offerMore", "existingAction", "partial", "select", "apiKey", "confirm",
     "retry", "statusline", "skipStatusline"}

ConfiguresClaude(tool) == tool \in {"claude", "both", "all"}

ConfiguresCodex(tool) == tool \in {"codex", "both", "all"}

ConfiguresOpenCode(tool) == tool \in {"opencode", "all"}

\* a flow that keeps the result of the last configurator alone
successOfLast(outcomes) == outcomes = <<>> \/ outcomes[Len(outcomes)].ok

\* success = success && result, over the configurators that ran
success(outcomes) == \A n \in 1..Len(outcomes) : outcomes[n].ok

\* the setEnvironmentVariable calls of step 8, in order
envPlan(tool, key) ==
    (IF ConfiguresClaude(tool)
     THEN << <<"ANTHROPIC_BASE_URL", MEGALLM_BASE_URL>>, <<"ANTHROPIC_API_KEY", key>> >>
     ELSE <<>>)
    \o (IF tool \in {"codex", "opencode", "both", "all"}
        THEN << <<"MEGALLM_API_KEY", key>> >> ELSE <<>>)

StatuslineScript == Stored(Str("statusline"))

MainDisks ==
    { [p \in DiskPaths |-> CASE p = CONFIG_PATHS.claude.user -> c
                             [] p = CONFIG_PATHS.codex.user -> x
                             [] p = STATUSLINE_SCRIPT -> l
                             [] OTHER -> NoFile]
      : c \in {NoFile, Corrupt, Stored(Obj(<< <<"theme", Str("dark")>> >>))},
        x \in {NoFile, Corrupt,
               Stored(Obj(<< <<"model_provider", Str("megallm")>> >>))},
        l \in {NoFile, StatuslineScript} }

InitMain ==
    /\ pc = "start"
    /\ exitCode = 0
    /\ printed = {}
    /\ installed \in SUBSET Tools
    /\ selectedTool = ""
    /\ setupLevel = ""
    /\ keyInput = ""
    /\ ran = <<>>
    /\ envCalls = <<>>
    /\ attempts = 1
    /\ cause = ""
    /\ installChoice = ""
    /\ pending = NoSignal
    /\ disk \in MainDisks
    /\ initDisk = disk
    /\ typed = ""
    /\ checked = NotChecked
    /\ keyEntry = NoEntry
    /\ gitignore = Absent
    /\ roPaths = {}
    /\ cfgOk = TRUE
    /\ readResult = Null
    /\ prevDisk = disk
    /\ cfgHist = <<>>
    /\ shell = "bash"
    /\ fs = [f \in Files |-> Absent]
    /\ penv = [v \in VarNames |-> NoValue]
    /\ ioFail \in {{}, {".bashrc"}}
    /\ results = EmptyResults
    /\ setOk = TRUE
    /\ prevFs = fs
    /\ initFs = fs
    /\ hist = <<>>
    /\ MergeIdle

flowFrame == <<shell, ioFail, prevFs, initFs, hist, gitignore, roPaths, cfgOk, readResult,
               prevDisk, cfgHist, mergeVars, pending, initDisk, typed, checked, keyEntry>>

mainFrame == <<flowFrame, installChoice>>

profileState == <<fs, penv, results, setOk>>

choices == <<installed, selectedTool, setupLevel, keyInput, ran, envCalls, attempts>>

\* process.exit(code) after printing msgs
Exit(code, why, msgs) ==
    /\ pc' = "exited"
    /\ exitCode' = code
    /\ cause' = why
    /\ printed' = printed \cup msgs
    /\ UNCHANGED <<choices, disk, profileState, mainFrame>>

\* on to the next step of the flow
Goto(step) ==
    /\ pc' = step
    /\ UNCHANGED <<exitCode, cause>>

\* return main()
Restart ==
    /\ attempts < MaxAttempts
    /\ Goto("start")
    /\ attempts' = attempts + 1
    /\ ran' = <<>>
    /\ UNCHANGED <<printed, installed, selectedTool, setupLevel, keyInput, envCalls, disk,
                   profileState, mainFrame>>

\* showBanner, detectOS, checkToolsStatus, getInstalledTools
DetectTools ==
    /\ pc = "start"
    /\ Goto(IF installed = {} THEN "offerInstall"
            ELSE IF installed # Tools THEN "offerMore" ELSE "existing")
    /\ UNCHANGED <<printed, choices, disk, profileState, mainFrame>>

\* no tool is installed: the offer to install some
OfferInstall ==
    /\ pc = "offerInstall"
    /\ \E wantsToInstall \in BOOLEAN, choice \in Tools \cup {"all"} :
           IF ~wantsToInstall THEN Exit(1, "noTools", {MsgNoTools})
           ELSE /\ Goto("install")
                /\ installChoice' = choice
                /\ UNCHANGED <<printed, choices, disk, profileState, flowFrame>>

\* installClaudeCode, installCodex, installOpenCode for the choice made, each
\* a blocking execSync, and the final check of the installed tools
Install ==
    /\ pc = "install"
    /\ \E works \in SUBSET Tools :
           LET chosen == IF installChoice = "all" THEN Tools ELSE {installChoice}
           IN IF chosen \cap works = {} THEN Exit(1, "installFailed", {MsgInstallFailed})
              ELSE /\ Goto("existing")
                   /\ installed' = chosen \cap works
                   /\ UNCHANGED <<printed, selectedTool, setupLevel, keyInput, ran,
                                  envCalls, attempts, disk, profileState, mainFrame>>

\* some tools are missing: the offer to install them
OfferMore ==
    /\ pc = "offerMore"
    /\ \E wantsMore \in BOOLEAN, choice \in (Tools \ installed) \cup {"all"},
          works \in SUBSET Tools :
           LET chosen == IF choice = "all" THEN Tools \ installed ELSE {choice}
           IN /\ choice = "all" => Cardinality(Tools \ installed) > 1
              /\ Goto("existing")
              /\ installed' = IF wantsMore THEN installed \cup (chosen \cap works) ELSE installed
              /\ UNCHANGED <<printed, selectedTool, setupLevel, keyInput, ran, envCalls,
                             attempts, disk, profileState, mainFrame>>

\* checkExistingConfiguration() and detectExistingEnvVars(): reading a
\* config.toml that does not parse throws; what the Claude configuration and
\* the environment show is an input
CheckExisting ==
    /\ pc = "existing"
    /\ LET codex == checkExistingCodexConfig(disk)
       IN IF codex.threw THEN Exit(1, "error", {MsgError})
          ELSE /\ \E found \in {"configured", "partial", "none"} :
                      /\ codex.hasConfig => found = "configured"
                      /\ Goto(CASE found = "configured" -> "existingAction"
                                [] found = "partial" -> "partial"
                                [] OTHER -> "select")
               /\ UNCHANGED <<printed, choices, disk, profileState, mainFrame>>

\* promptExistingConfigAction and confirmOverride
ExistingAction ==
    /\ pc = "existingAction"
    /\ \E action \in {"skip", "cancel", "override"}, confirmAction \in BOOLEAN :
           CASE action = "skip" ->
                    /\ Goto("skipStatusline")
                    /\ printed' = printed \cup {MsgKeeping}
                    /\ UNCHANGED <<choices, disk, profileState, mainFrame>>
             [] action = "cancel" -> Exit(0, "cancel", {MsgCancelled})
             [] OTHER ->
                    IF ~confirmAction THEN Exit(0, "cancel", {MsgCancelled})
                    ELSE /\ Goto("removeEnv")
                         /\ UNCHANGED <<printed, choices, disk, profileState, mainFrame>>

\* override: removeEnvVars()
OverrideEnvVars ==
    /\ pc = "removeEnv"
    /\ removeEnvVars
    /\ Goto("removeFiles")
    /\ UNCHANGED <<printed, choices, disk, setOk, mainFrame>>

\* override: removeConfigurationFiles(), over the Claude configurations
\* checkExistingClaudeConfig reports
OverrideFiles ==
    /\ pc = "removeFiles"
    /\ \E configs \in SUBSET {p \in Range(ClaudePaths) : disk[p].exists /\ ~disk[p].corrupt} :
           disk' = removeConfigurationFiles(disk, configs).disk
    /\ Goto("select")
    /\ UNCHANGED <<printed, choices, profileState, mainFrame>>

\* a partial configuration: the offer to update it
PartialConfiguration ==
    /\ pc = "partial"
    /\ \E proceed \in BOOLEAN :
           IF ~proceed THEN Exit(0, "cancel", {MsgCancelled})
           ELSE /\ Goto("select")
                /\ UNCHANGED <<printed, choices, disk, profileState, mainFrame>>

\* promptToolSelection(installedTools), then promptSetupLevel() unless
\* Codex alone is selected
SelectTool ==
    /\ pc = "select"
    /\ \E tool \in installed \cup {"both"}, level \in {SETUP_LEVELS.SYSTEM, SETUP_LEVELS.PROJECT} :
           /\ tool = "both" => Cardinality(installed) > 1
           /\ selectedTool' = tool
           /\ setupLevel' = IF tool = "codex" THEN SETUP_LEVELS.SYSTEM ELSE level
    /\ Goto("apiKey")
    /\ UNCHANGED <<printed, installed, keyInput, ran, envCalls, attempts, disk, profileState,
                   mainFrame>>

\* promptApiKey(): a key, or process.exit(0) when the user has none yet
PromptApiKey ==
    /\ pc = "apiKey"
    /\ \E continueSetup \in BOOLEAN, key \in ConfigKeys :
           IF ~continueSetup THEN Exit(0, "noKey", {})
           ELSE /\ keyInput' = key
                /\ Goto("confirm")
                /\ UNCHANGED <<printed, installed, selectedTool, setupLevel, ran, envCalls,
                               attempts, disk, profileState, mainFrame>>

\* confirmConfiguration, and promptRetry when the answer is no
ConfirmConfiguration ==
    /\ pc = "confirm"
    /\ \E confirmed \in BOOLEAN, retry \in BOOLEAN :
           IF confirmed
           THEN /\ Goto("apply")
                /\ UNCHANGED <<printed, choices, disk, profileState, mainFrame>>
           ELSE IF retry THEN Restart
                ELSE Exit(0, "declined", {MsgCancelled})

NotRun(d, g) == [disk |-> d, gitignore |-> g, ok |-> TRUE]

configLevel == IF setupLevel = SETUP_LEVELS.SYSTEM THEN "system" ELSE "project"

\* the configurators that ran, with what each returned
outcomesOf(claude, codex, opencode) ==
    (IF ConfiguresClaude(selectedTool) THEN <<[tool |-> "claude", ok |-> claude.ok]>> ELSE <<>>)
    \o (IF ConfiguresCodex(selectedTool) THEN <<[tool |-> "codex", ok |-> codex.ok]>> ELSE <<>>)
    \o (IF ConfiguresOpenCode(selectedTool)
        THEN <<[tool |-> "opencode", ok |-> opencode.ok]>> ELSE <<>>)

\* the end of step 7: on to step 8, or 'Configuration failed!'
applied(last, outcomes) ==
    /\ disk' = last.disk
    /\ gitignore' = last.gitignore
    /\ prevDisk' = disk
    /\ ran' = outcomes
    /\ IF success(outcomes)
       THEN /\ Goto(IF setupLevel = SETUP_LEVELS.SYSTEM THEN "setEnv"
                    ELSE IF ConfiguresClaude(selectedTool) THEN "statusline"
                         ELSE "finish")
            /\ printed' = printed
       ELSE /\ Goto("retry")
            /\ printed' = printed \cup {MsgFailed}

applyOpenCode(claude, codex, opencode) ==
    applied(opencode, outcomesOf(claude, codex, opencode))

applyCodex(claude, codex) ==
    applyOpenCode(claude, codex,
                  IF ConfiguresOpenCode(selectedTool)
                  THEN configureOpenCode(codex.disk, claude.gitignore, keyInput, configLevel)
                  ELSE NotRun(codex.disk, claude.gitignore))

applyClaude(claude) ==
    applyCodex(claude,
               IF ConfiguresCodex(selectedTool)
               THEN configureCodex(claude.disk, keyInput, configLevel)
               ELSE [disk |-> claude.disk, ok |-> TRUE])

\* step 7: the configurators of the selected tools, one after the other
ApplyConfiguration ==
    /\ pc = "apply"
    /\ applyClaude(IF ConfiguresClaude(selectedTool)
                   THEN configureClaude(disk, gitignore, keyInput, configLevel)
                   ELSE NotRun(disk, gitignore))
    /\ UNCHANGED <<installed, selectedTool, setupLevel, keyInput, envCalls, attempts,
                   profileState, shell, ioFail, prevFs, initFs, hist, roPaths, cfgOk,
                   readResult, cfgHist, mergeVars, pending, initDisk, installChoice,
                   typed, checked, keyEntry>>

\* promptRetry() after a failed configuration
RetryPrompt ==
    /\ pc = "retry"
    /\ \E retry \in BOOLEAN : IF retry THEN Restart ELSE Exit(1, "configFailed", {})

\* step 8: the next setEnvironmentVariable call
SetEnvironment ==
    /\ pc = "setEnv"
    /\ Len(envCalls) < Len(envPlan(selectedTool, keyInput))
    /\ LET call == envPlan(selectedTool, keyInput)[Len(envCalls) + 1]
       IN /\ setEnvironmentVariable(call[1], call[2])
          /\ envCalls' = Append(envCalls, call[1])
    /\ Goto("setEnv")
    /\ UNCHANGED <<printed, installed, selectedTool, setupLevel, keyInput, ran, attempts,
                   disk, results, mainFrame>>

\* step 8 done
EnvironmentSet ==
    /\ pc = "setEnv"
    /\ Len(envCalls) = Len(envPlan(selectedTool, keyInput))
    /\ printed' = printed \cup {MsgEnvSet}
    /\ Goto(IF ConfiguresClaude(selectedTool) THEN "statusline" ELSE "finish")
    /\ UNCHANGED <<choices, disk, profileState, mainFrame>>

\* handleStatuslineSetup(toolsStatus): the disks it can leave.  Nothing
\* happens when Claude Code is not installed or the script exists; else the
\* user is asked, and configureStatusline(true) runs the initializer, which
\* succeeds (the script exists afterwards) or does not.
handleStatuslineSetup(d) ==
    IF "claude" \notin installed \/ d[STATUSLINE_SCRIPT].exists
    THEN {d}
    ELSE {d, [d EXCEPT ![STATUSLINE_SCRIPT] = StatuslineScript]}

\* step 8.5: handleStatuslineSetup
StatuslineSetup ==
    /\ pc = "statusline"
    /\ disk' \in handleStatuslineSetup(disk)
    /\ Goto("finish")
    /\ UNCHANGED <<printed, choices, profileState, mainFrame>>

\* Skip at the existing-configuration prompt: handleStatuslineSetup, then
\* process.exit(0)
SkipStatusline ==
    /\ pc = "skipStatusline"
    /\ disk' \in handleStatuslineSetup(disk)
    /\ pc' = "exited"
    /\ exitCode' = 0
    /\ cause' = "skip"
    /\ UNCHANGED <<printed, choices, profileState, mainFrame>>

\* steps 9 and 10: reloadShell() and the success message; main returns
Finish ==
    /\ pc = "finish"
    /\ pc' = "returned"
    /\ cause' = "done"
    /\ printed' = printed \cup {MsgSuccess}
    /\ UNCHANGED <<exitCode, choices, disk, profileState, mainFrame>>

\* an exception other than a prompt's force-close escapes a step: the catch
\* of main, or of the caller of main when showBanner throws
StepThrows ==
    /\ pc \notin {"idle", "exited", "returned"}
    /\ Exit(1, "error", {MsgError})

\* the user force-closes a pending prompt
ForceClose ==
    /\ pc \in PromptSteps
    /\ Exit(0, "forceClose", {MsgForceClosed})

NextMain ==
    \/ DetectTools
    \/ OfferInstall
    \/ Install
    \/ OfferMore
    \/ CheckExisting
    \/ ExistingAction
    \/ OverrideEnvVars
    \/ OverrideFiles
    \/ PartialConfiguration
    \/ SelectTool
    \/ PromptApiKey
    \/ ConfirmConfiguration
    \/ ApplyConfiguration
    \/ RetryPrompt
    \/ SetEnvironment
    \/ EnvironmentSet
    \/ StatuslineSetup
    \/ SkipStatusline
    \/ Finish
    \/ StepThrows
    \/ ForceClose

SpecMain == InitMain /\ [][NextMain]_vars

(***************************************************************************)
(* SpecPrompt: promptApiKey().  A string is described by its shape: the    *)
(* spaces it starts with, whether 'Bearer ' follows, the number of other   *)
(* characters, whether one more space stands between two of them, and the  *)
(* spaces it ends with.                                                    *)
(***************************************************************************)
MaxPad == 2
MaxBody == 22
MinKeyLength == 20
BearerLength == 7

Shape(lead, bearer, body, inner, trail) ==
    [lead |-> lead, bearer |-> bearer, body |-> body, inner |-> inner, trail |-> trail]

EmptyString == Shape(0, FALSE, 0, FALSE, 0)

KeyInputs ==
    { Shape(l, b, n, i, t) : l \in 0..MaxPad, b \in BOOLEAN, n \in 0..MaxBody,
                            i \in BOOLEAN, t \in 0..MaxPad }
    \ { Shape(l, b, n, TRUE, t) : l \in 0..MaxPad, b \in BOOLEAN, n \in 0..1, t \in 0..MaxPad }

\* str.length
StrLength(str) ==
    str.lead + (IF str.bearer THEN BearerLength ELSE 0) + str.body
    + (IF str.inner THEN 1 ELSE 0) + str.trail

\* str.trim(); the space of a 'Bearer ' that nothing follows is trimmed too
Trim(str) ==
    IF ~str.bearer /\ str.body = 0 THEN EmptyString
    ELSE IF str.bearer /\ str.body = 0 THEN Shape(0, FALSE, BearerLength - 1, FALSE, 0)
         ELSE Shape(0, str.bearer, str.body, str.inner, 0)

\* str.includes(' ')
IncludesSpace(str) == str.lead > 0 \/ str.bearer \/ str.inner \/ str.trail > 0

\* str.startsWith('Bearer ')
StartsWithBearer(str) == str.bearer /\ str.lead = 0

\* the validate callback of the password prompt: "true", or the message shown
validate(input) ==
    IF StrLength(input) = 0 \/ StrLength(Trim(input)) = 0 THEN "API key is required"
    ELSE IF StrLength(input) < MinKeyLength
         THEN "API key seems too short. Please check and try again."
         ELSE "true"

\* validateApiKey(apiKey).valid
validateApiKey(key) ==
    /\ ~(StrLength(key) = 0 \/ StrLength(Trim(key)) = 0)
    /\ ~(StrLength(key) < MinKeyLength)
    /\ ~(IncludesSpace(key) /\ ~StartsWithBearer(key))

InitPrompt ==
    /\ pc = "hasKey"
    /\ exitCode = 0
    /\ printed = {}
    /\ installed = {}
    /\ selectedTool = ""
    /\ setupLevel = ""
    /\ keyInput = EmptyString
    /\ ran = <<>>
    /\ envCalls = <<>>
    /\ attempts = 0
    /\ cause = ""
    /\ installChoice = ""
    /\ pending = NoSignal
    /\ initDisk = <<>>
    /\ typed = EmptyString
    /\ checked = NotChecked
    /\ keyEntry = NoEntry
    /\ ProfileIdle
    /\ MergeIdle
    /\ ConfigIdle

promptFrame ==
    <<printed, installed, selectedTool, setupLevel, ran, envCalls, attempts, installChoice,
      pending, initDisk, checked, keyEntry, profileVars, mergeVars, configVars>>

\* "Do you have a MegaLLM API key?" and "Ready to enter your API key?"
AskHasKey ==
    /\ pc = "hasKey"
    /\ \E hasKey \in BOOLEAN, continueSetup \in BOOLEAN :
           IF ~hasKey /\ ~continueSetup
           THEN pc' = "exited" /\ exitCode' = 0 /\ cause' = "noKey"
           ELSE pc' = "password" /\ UNCHANGED <<exitCode, cause>>
    /\ UNCHANGED <<keyInput, typed, promptFrame>>

\* the user submits a line at the password prompt
TypeKey ==
    /\ pc = "password"
    /\ typed' \in KeyInputs
    /\ pc' = "validate"
    /\ UNCHANGED <<exitCode, cause, keyInput, promptFrame>>

\* the prompt shows the message of validate and stays open
RejectKey ==
    /\ pc = "validate"
    /\ validate(typed) # "true"
    /\ pc' = "password"
    /\ UNCHANGED <<exitCode, cause, keyInput, typed, promptFrame>>

\* return apiKey.trim()
ReturnKey ==
    /\ pc = "validate"
    /\ validate(typed) = "true"
    /\ keyInput' = Trim(typed)
    /\ pc' = "keyReturned"
    /\ UNCHANGED <<exitCode, cause, typed, promptFrame>>

NextPrompt == AskHasKey \/ TypeKey \/ RejectKey \/ ReturnKey

SpecPrompt == InitPrompt /\ [][NextPrompt]_vars

(***************************************************************************)
(* SpecDetect: checkExistingConfiguration() over the ANTHROPIC_BASE_URL    *)
(* entries of detectExistingEnvVars() on a Unix-like system.  A value is   *)
(* the sequence of tokens the pattern captured.                            *)
(***************************************************************************)
OTHER_BASE_URL == "https://api.anthropic.com"

\* str.trim() over tokens
RECURSIVE TrimTokens(_)
TrimTokens(t) ==
    IF t = <<>> THEN t
    ELSE IF IsWS(t[1]) THEN TrimTokens(Tail(t))
         ELSE IF IsWS(t[Len(t)]) THEN TrimTokens(SubSeq(t, 1, Len(t) - 1))
              ELSE t

\* [^"'\n]+ from q: the first index >= q that holds a quote or a newline
captureEnd(s, q) ==
    LET stops == {j \in q..(Len(s) + 1) : j > Len(s) \/ s[j] \in {QUOTE, NL}}
    IN CHOOSE j \in stops : \A k \in stops : j <= k

NoMatch == [found |-> FALSE, value |-> <<>>, end |-> 0]

\* \s*["']?([^"'\n]+)["']? from a: match[1].trim() and the index after the
\* match.  The whitespace and the quote are taken greedily; when nothing is
\* left for the group, the last space is given back to it.
detectCapture(s, a) ==
    IF a = 0 THEN NoMatch
    ELSE LET j == SkipWS(s, a)
             q == IF At(s, j, QUOTE) THEN j + 1 ELSE j
             e == captureEnd(s, q)
         IN IF e > q
            THEN [found |-> TRUE, value |-> TrimTokens(SubSeq(s, q, e - 1)),
                  end |-> IF At(s, e, QUOTE) THEN e + 1 ELSE e]
            ELSE IF j > a /\ s[j - 1] = SP
                 THEN [found |-> TRUE, value |-> <<>>,
                       end |-> IF At(s, j, QUOTE) THEN j + 1 ELSE j]
                 ELSE NoMatch

\* the four patterns of checkFileForEnvVars for V, matched at i
patternMatch(p, s, i, V) ==
    CASE p = 1 -> IF ExportVar(s, i, V) > 0
                  THEN detectCapture(s, AssignVar(s, ExportVar(s, i, V) - 1, V)) ELSE NoMatch
      [] p = 2 -> detectCapture(s, AssignVar(s, i, V))
      [] p = 3 -> IF At(s, i, POWERSHELL_ENV)
                  THEN detectCapture(s, AssignVar(s, i + 1, V)) ELSE NoMatch
      [] OTHER -> IF At(s, i, SETW) /\ SkipWS(s, i + 1) > i + 1
                  THEN detectCapture(s, AssignVar(s, SkipWS(s, i + 1), V)) ELSE NoMatch

\* while ((match = pattern.exec(content)) !== null): the values captured
\* from index i on
RECURSIVE patternValues(_, _, _, _)
patternValues(p, s, i, V) ==
    IF i > Len(s) THEN <<>>
    ELSE IF patternMatch(p, s, i, V).found
         THEN <<patternMatch(p, s, i, V).value>>
              \o patternValues(p, s, Max(i + 1, patternMatch(p, s, i, V).end), V)
         ELSE patternValues(p, s, i + 1, V)

\* an entry is pushed unless one with that value and location is there
RECURSIVE pushNew(_, _)
pushNew(entries, values) ==
    IF values = <<>> THEN entries
    ELSE pushNew(IF Head(values) \in Range(entries) THEN entries
                 ELSE Append(entries, Head(values)),
                 Tail(values))

\* checkFileForEnvVars: the values of the entries pushed for V, in order
fileValues(content, V) ==
    pushNew(<<>>, patternValues(1, content, 1, V) \o patternValues(2, content, 1, V)
                  \o patternValues(3, content, 1, V) \o patternValues(4, content, 1, V))

entry(source, value, location) == [source |-> source, value |-> value, location |-> location]

RECURSIVE fileEntries(_, _, _)
fileEntries(values, location, n) ==
    IF n > Len(values) THEN <<>>
    ELSE <<entry("config_file", values[n], location)>> \o fileEntries(values, location, n + 1)

\* detectUnixEnvVars: the loop over shellConfigs from index n on; a file
\* that cannot be read is passed over
RECURSIVE configEntries(_, _, _)
configEntries(files, V, n) ==
    IF n > Len(shellConfigs) THEN <<>>
    ELSE (IF files[shellConfigs[n]].exists /\ shellConfigs[n] \notin ioFail
          THEN fileEntries(fileValues(files[shellConfigs[n]].text, V), shellConfigs[n], 1)
          ELSE <<>>)
         \o configEntries(files, V, n + 1)

\* detectExistingEnvVars(): results[V] for a variable that is not masked:
\* process.env, the configuration files, then the output of env
detectExistingEnvVars(env, files, V) ==
    (IF env[V] # NoValue
     THEN <<entry("current_process", <<env[V]>>, "Current shell session")>> ELSE <<>>)
    \o configEntries(files, V, 1)
    \o (IF env[V] # NoValue
        THEN <<entry("shell_env", <<env[V]>>, "Shell environment")>> ELSE <<>>)

\* value.includes('megallm')
ValueIncludesMegallm(value) == \E n \in 1..Len(value) : IncludesMegallm(Str(value[n]))

\* checkExistingConfiguration(): hasBaseUrl, baseUrlValue and isConfigured
checkExistingConfiguration(envVars, claudeHasConfig, codexHasConfig) ==
    [envVars |-> envVars,
     hasBaseUrl |-> Len(envVars) > 0,
     baseUrlValue |-> IF Len(envVars) > 0 THEN envVars[1].value ELSE <<>>,
     isConfigured |-> \/ Len(envVars) > 0 /\ ValueIncludesMegallm(envVars[1].value)
                      \/ claudeHasConfig
                      \/ codexHasConfig]

BaseUrls == {MEGALLM_BASE_URL, OTHER_BASE_URL}

BaseUrlLines ==
    {exportLine("ANTHROPIC_BASE_URL", u) : u \in BaseUrls}
    \cup {<<"ANTHROPIC_BASE_URL", EQ, u>> : u \in BaseUrls}
    \cup {<<EXPORT, SP, OTHERVAR, EQ, TEXT>>}

DetectFiles == {Absent} \cup {File(Join(ls)) : ls \in UNION {[1..n -> BaseUrlLines] : n \in 1..MaxLines}}

InitDetect ==
    /\ \E b \in DetectFiles, z \in {Absent} \cup {File(Join(<<l>>)) : l \in BaseUrlLines} :
           fs = [f \in Files |-> CASE f = ".bashrc" -> b
                                   [] f = ".zshrc" -> z
                                   [] OTHER -> Absent]
    /\ \E u \in BaseUrls \cup {NoValue} :
           penv = [v \in VarNames |-> IF v = "ANTHROPIC_BASE_URL" THEN u ELSE NoValue]
    /\ shell = "bash"
    /\ ioFail \in {{}, {".bashrc"}}
    /\ results = EmptyResults
    /\ setOk = TRUE
    /\ prevFs = fs
    /\ initFs = fs
    /\ hist = <<>>
    /\ \E x \in {NoFile, Stored(Obj(<< <<"model_provider", Str("megallm")>> >>)),
                 Stored(Obj(<< <<"model_provider", Str("openai")>> >>))} :
           disk = DiskWith(CONFIG_PATHS.codex.user, x)
    /\ gitignore = Absent
    /\ roPaths = {}
    /\ cfgOk = TRUE
    /\ readResult = Null
    /\ prevDisk = disk
    /\ cfgHist = <<>>
    /\ MergeIdle
    /\ MainIdle

\* checkExistingConfiguration(); what checkExistingClaudeConfig() reports is
\* an input
CheckExistingConfiguration ==
    /\ checked = NotChecked
    /\ \E claudeHasConfig \in BOOLEAN :
           checked' = checkExistingConfiguration(
                          detectExistingEnvVars(penv, fs, "ANTHROPIC_BASE_URL"),
                          claudeHasConfig, checkExistingCodexConfig(disk).hasConfig)
    /\ UNCHANGED <<profileVars, mergeVars, configVars, pc, exitCode, printed, choices, cause,
                   installChoice, pending, initDisk, typed, keyEntry>>

NextDetect == CheckExistingConfiguration

SpecDetect == InitDetect /\ [][NextDetect]_vars

(***************************************************************************)
(* SpecMask: maskApiKey() over the API keys detectExistingEnvVars() finds. *)
(* A key is the sequence of its characters.                                *)
(***************************************************************************)
MaxShortKey == 6
MaxKeyLength == 18
MaskPrefix == 10
MaskSuffix == 4

Alphabet ==
    <<"a", "b", "c", "d", "e", "f", "g", "h", "i", "j", "k", "l", "m", "n", "o", "p", "q", "r",
      "s", "t", "u", "v", "w", "x", "y", "z">>

\* short keys over two characters, and one key of each greater length, its
\* characters all different
MaskKeys ==
    UNION {[1..n -> {"a", "b"}] : n \in 1..MaxShortKey}
    \cup {SubSeq(Alphabet, 1, n) : n \in (MaxShortKey + 1)..MaxKeyLength}

\* maskApiKey(apiKey)
maskApiKey(apiKey) ==
    IF apiKey = <<>> \/ Len(apiKey) < MaskPrefix THEN apiKey
    ELSE SubSeq(apiKey, 1, MaskPrefix) \o <<".", ".", ".">>
         \o SubSeq(apiKey, Len(apiKey) - MaskSuffix + 1, Len(apiKey))

InitMask ==
    /\ ProfileIdle
    /\ MergeIdle
    /\ ConfigIdle
    /\ MainIdle

\* detectExistingEnvVars(): the entry pushed for process.env.ANTHROPIC_API_KEY
DetectApiKey ==
    /\ \E key \in MaskKeys :
           keyEntry' = [source |-> "current_process", value |-> maskApiKey(key),
                        rawValue |-> key]
    /\ UNCHANGED <<profileVars, mergeVars, configVars, pc, exitCode, printed, choices, cause,
                   installChoice, pending, initDisk, typed, checked>>

NextMask == DetectApiKey

SpecMask == InitMask /\ [][NextMask]_vars

(***************************************************************************)
(* User interrupts: the handlers registered with process.on and            *)
(* process.stdin.on are callbacks, run by the event loop when main waits   *)
(* for a prompt, a file operation or a child process; a step that blocks   *)
(* (execSync, the synchronous file operations of shell.js) runs to its end *)
(* first, and so does what follows it up to the next wait.                 *)
(***************************************************************************)
Signals == {"SIGINT", "SIGTERM", "escape"}

MsgTerminated == "Setup terminated."

\* the steps that begin by waiting: a prompt, checkExistingConfiguration,
\* removeConfigurationFiles, the configurators
AwaitSteps == PromptSteps \cup {"existing", "removeFiles", "apply"}

\* main is waiting, so that the event loop runs the callbacks;
\* handleStatuslineSetup returns at once when Claude Code is not installed
Yields ==
    pc \in AwaitSteps /\ (pc \in {"statusline", "skipStatusline"} => "claude" \in installed)

InitInterrupt ==
    /\ InitMain
    /\ ioFail = {}
    /\ disk[CONFIG_PATHS.claude.user] # Corrupt
    /\ disk[CONFIG_PATHS.codex.user] = NoFile

\* SIGINT, SIGTERM or an Escape keypress arrives while main is in step pc
Interrupt ==
    /\ pending = NoSignal
    /\ pc \notin {"idle", "exited", "returned"}
    /\ \E sig \in Signals : pending' = [sig |-> sig, at |-> <<pc, Len(envCalls)>>]
    /\ UNCHANGED <<profileVars, mergeVars, configVars, pc, exitCode, printed, choices, cause,
                   installChoice, initDisk, typed, checked, keyEntry>>

interruptMsg == IF pending.sig = "SIGTERM" THEN MsgTerminated ELSE MsgCancelled

\* the handler runs: the message, then process.exit(0)
HandleInterrupt ==
    /\ pending # NoSignal
    /\ Yields
    /\ Exit(0, "interrupt", {interruptMsg})

\* the handler runs while configureClaude's write is done and the next
\* configurator has not written yet
afterFirstWrite(claude) ==
    /\ disk' = claude.disk
    /\ gitignore' = claude.gitignore

HandleBetweenWrites ==
    /\ pending # NoSignal
    /\ pc = "apply"
    /\ ConfiguresClaude(selectedTool)
    /\ ConfiguresCodex(selectedTool) \/ ConfiguresOpenCode(selectedTool)
    /\ afterFirstWrite(configureClaude(disk, gitignore, keyInput, configLevel))
    /\ pc' = "exited"
    /\ exitCode' = 0
    /\ cause' = "interrupt"
    /\ printed' = printed \cup {interruptMsg}
    /\ UNCHANGED <<choices, profileState, shell, ioFail, prevFs, initFs, hist, roPaths, cfgOk,
                   readResult, prevDisk, cfgHist, mergeVars, pending, initDisk, installChoice,
                   typed, checked, keyEntry>>

\* main goes on: always when no interrupt is waiting, and through the steps
\* that do not wait when one is (without an exception of its own)
Flow ==
    /\ pending # NoSignal => ~Yields
    /\ NextMain
    /\ pending # NoSignal => cause' # "error"

NextInterrupt ==
    \/ Interrupt
    \/ HandleInterrupt
    \/ HandleBetweenWrites
    \/ Flow

SpecInterrupt == InitInterrupt /\ [][NextInterrupt]_vars

\* C11: once an interrupt (SIGINT, SIGTERM, Escape) has arrived, the step
\* main was in at most runs to its end, the process then exits, with
\* status 0, and no further step of the flow runs.
C11_InterruptEndsProcess ==
    [][pending # NoSignal /\ pc # "exited" =>
           /\ pc' = "exited" => exitCode' = 0
           /\ <<pc, Len(envCalls)>> # pending.at =>
                  \/ pc' = "exited"
                  \/ pc' = pc /\ envCalls' = envCalls]_vars

(***************************************************************************)
(* Properties of the shell profile                                         *)
(***************************************************************************)
\* the lines of a text, without their terminators
RECURSIVE Lines(_)
Lines(s) ==
    IF s = <<>> THEN <<>>
    ELSE <<SubSeq(s, 1, EOL(s, 1) - 1)>> \o Lines(SubSeq(s, EOL(s, 1) + 1, Len(s)))

\* the line names one of the managed variables (and not a longer name)
MentionsManaged(line) ==
    \E i \in 1..Len(line) :
        /\ line[i] \in VarNames
        /\ ~At(line, i + 1, SUFFIX)
        /\ ~At(line, i - 1, PREFIX)

IsUnrelatedLine(line) == HDR \notin Range(line) /\ ~MentionsManaged(line)

UnrelatedLines(file) == SelectSeq(Lines(file.text), IsUnrelatedLine)

\* a occurs in b, in order
RECURSIVE IsSubsequence(_, _)
IsSubsequence(a, b) ==
    IF a = <<>> THEN TRUE
    ELSE IF b = <<>> THEN FALSE
         ELSE IF Head(a) = Head(b) THEN IsSubsequence(Tail(a), Tail(b))
              ELSE IsSubsequence(a, Tail(b))

LastOp == hist[Len(hist)]

Removed == hist # <<>> /\ LastOp.op = "remove"

\* C3: removeEnvVars leaves every line that is neither a MegaLLM header nor
\* an assignment/export of a managed variable unchanged and in its place,
\* in every shell profile and in /etc/environment.
C3_UnrelatedLinesKept ==
    Removed => \A f \in Files : IsSubsequence(UnrelatedLines(prevFs[f]), Lines(fs[f].text))

ProfileFile == getShellConfigFile(shell)

NumMatches(m) == Cardinality({i \in DOMAIN m : m[i] > 0})

HasAssignment(text) ==
    \E V \in VarNames : Test(Table(text, LAMBDA t, i : AssignVar(t, i, V)))

\* no header and no assignment of a managed variable
CleanProfile(file) == file.exists /\ HDR \notin Range(file.text) /\ ~HasAssignment(file.text)

OnlySetsBefore(n) == \A k \in 1..(n - 1) : hist[k].op = "set"

\* C4: from a profile without header and managed assignments, setting
\* managed variables and then removing them restores the initial content.
C4_AddRemoveRoundTrip ==
    (CleanProfile(initFs[ProfileFile]) /\ Len(hist) >= 2 /\ Removed /\ OnlySetsBefore(Len(hist)))
        => fs[ProfileFile] = initFs[ProfileFile]

SetTwice ==
    /\ Len(hist) >= 2
    /\ LastOp.op = "set"
    /\ hist[Len(hist) - 1] = LastOp

\* C5: a second setEnvironmentVariable(key, value, true) with the same key
\* and value leaves the profile as the first call left it.
C5_SetIdempotent == SetTwice => fs[ProfileFile] = prevFs[ProfileFile]

NumHeaders(text) == Cardinality({i \in 1..Len(text) : text[i] = HDR})

ExportMatches(text, V) == Table(text, LAMBDA t, i : pattern1(t, i, V))

\* the value most recently set for V and not removed since, or NoValue
RECURSIVE CurrentValue(_, _)
CurrentValue(V, n) ==
    IF n = 0 THEN NoValue
    ELSE IF hist[n].op = "remove" THEN NoValue
         ELSE IF hist[n].key = V THEN hist[n].value
              ELSE CurrentValue(V, n - 1)

CarriesValue(text, V, value) ==
    \E i \in 1..Len(text) :
        /\ pattern1(text, i, V) > 0
        /\ SubSeq(text, i, EOL(text, i) - 1) = exportLine(V, value)

NoExports(file) ==
    /\ HDR \notin Range(file.text)
    /\ \A V \in VarNames : ~Test(ExportMatches(file.text, V))

\* C6: from a profile without header and managed exports, any sequence of
\* set and remove calls leaves at most one header and at most one export
\* line per managed key, and that line carries the value set last.
C6_NoDuplicateBlocks ==
    NoExports(initFs[ProfileFile]) =>
        /\ NumHeaders(fs[ProfileFile].text) <= 1
        /\ \A V \in VarNames :
               /\ NumMatches(ExportMatches(fs[ProfileFile].text, V)) <= 1
               /\ Test(ExportMatches(fs[ProfileFile].text, V))
                      => CarriesValue(fs[ProfileFile].text, V, CurrentValue(V, Len(hist)))

\* what removeEnvVars() is meant to leave in file f
Processed(f) ==
    IF ~prevFs[f].exists THEN prevFs[f]
    ELSE IF f = EtcEnvironment
         THEN File(cleanEtc(prevFs[f].text, FALSE, 1).text)
         ELSE LET r == cleanProfile(prevFs[f].text)
              IN IF r.modified THEN File(r.text) ELSE prevFs[f]

FailingProfiles == {f \in Range(configFiles) : f \in ioFail /\ prevFs[f].exists}

\* C10: a read or write failure on one shell profile is recorded in the
\* returned errors, and the other profiles and /etc/environment are still
\* processed.
C10_ProfileFailureNonFatal ==
    (Removed /\ FailingProfiles # {}) =>
        /\ results.errors # <<>>
        /\ \A f \in Files \ FailingProfiles : fs[f] = Processed(f)

(***************************************************************************)
(* SpecMerge: mergeJsonConfig on bounded nested objects                    *)
(***************************************************************************)
MaxNumber == 2

Numbers == {Num(n) : n \in 1..MaxNumber}

\* the objects over the keys of ks, in that order, with values from vals
RECURSIVE ObjectsOver(_, _)
ObjectsOver(ks, vals) ==
    IF ks = <<>> THEN {EmptyObj}
    ELSE LET rest == ObjectsOver(Tail(ks), vals)
         IN rest \cup {Obj(<<<<Head(ks), v>>>> \o Entries(o)) : v \in vals, o \in rest}

Level1 == ObjectsOver(<<"c", "d">>, Numbers)
Level2 == ObjectsOver(<<"b">>, {Num(1)} \cup Level1)
TopValues == {Num(1), Null, Bool(FALSE), Arr(<<Num(1)>>)} \cup Level2

ExistingObjects == ObjectsOver(<<"a", "k">>, TopValues)
NewObjects == ObjectsOver(<<"a">>, TopValues)

InitMerge ==
    /\ existingData \in ExistingObjects
    /\ newData \in NewObjects
    /\ merged = EmptyObj
    /\ mergePc = "call"
    /\ ProfileIdle
    /\ ConfigIdle
    /\ MainIdle

\* after the call: the object returned and the two arguments
mergeReturned(st) ==
    /\ merged' = st.merged
    /\ existingData' = st.existing
    /\ newData' = st.new

Merge ==
    /\ mergePc = "call"
    /\ mergeReturned(mergeLoop(mergeStore(existingData, newData), 1))
    /\ mergePc' = "done"
    /\ UNCHANGED notMerge

NextMerge == Merge

SpecMerge == InitMerge /\ [][NextMerge]_vars

\* the key paths of v, every depth
RECURSIVE PathsOf(_)
PathsOf(v) ==
    IF ~IsPlainObject(v) THEN {}
    ELSE UNION { {<<Entries(v)[n][1]>>}
                 \cup {<<Entries(v)[n][1]>> \o q : q \in PathsOf(Entries(v)[n][2])}
                 : n \in 1..Len(Entries(v)) }

RECURSIVE Resolve(_, _)
Resolve(v, path) ==
    IF path = <<>> THEN v ELSE Resolve(Get(v, Head(path)), Tail(path))

\* newData sets the path: it holds the path itself, or a value that is not
\* an object at one of its prefixes
SetsPath(new, path) ==
    \/ path \in PathsOf(new)
    \/ \E n \in 1..(Len(path) - 1) :
           /\ SubSeq(path, 1, n) \in PathsOf(new)
           /\ ~IsPlainObject(Resolve(new, SubSeq(path, 1, n)))

\* C1: every key path of existingData that newData does not set, at any
\* depth, is in the merged object with the value it has in existingData.
C1_MergeKeepsUnrelatedPaths ==
    mergePc = "done" =>
        \A path \in PathsOf(existingData) :
            ~SetsPath(newData, path) =>
                /\ path \in PathsOf(merged)
                /\ Resolve(merged, path) = Resolve(existingData, path)

(***************************************************************************)
(* Properties of the configurators                                         *)
(***************************************************************************)
LastRun == cfgHist[Len(cfgHist)]

\* the same data, whatever the order of the keys
RECURSIVE SameData(_, _)
SameData(a, b) ==
    IF TypeTag(a) # TypeTag(b) THEN FALSE
    ELSE CASE TypeTag(a) = "object" ->
                  /\ Range(KeysOf(a)) = Range(KeysOf(b))
                  /\ \A k \in Range(KeysOf(a)) : SameData(Get(a, k), Get(b, k))
           [] TypeTag(a) = "array" ->
                  /\ Len(a[2]) = Len(b[2])
                  /\ \A n \in 1..Len(a[2]) : SameData(a[2][n], b[2][n])
           [] OTHER -> a = b

CodexRan ==
    /\ cfgHist # <<>>
    /\ LastRun.op = "configureCodex"
    /\ cfgOk
    /\ prevDisk[LastRun.path].exists

PrevCodex == prevDisk[CONFIG_PATHS.codex.user].data

NowCodex == disk[CONFIG_PATHS.codex.user].data

EntryKept(old, new, k) == Has(new, k) /\ Get(new, k) = Get(old, k)

\* the entries of a table other than those of skip are kept
EntriesKept(old, new, skip) ==
    IsPlainObject(old) => \A k \in Range(KeysOf(old)) \ skip : EntryKept(old, new, k)

CodexTablesKept ==
    /\ EntriesKept(Get(PrevCodex, "model_providers"), Get(NowCodex, "model_providers"),
                   {"megallm"})
    /\ EntriesKept(Get(PrevCodex, "tools"), Get(NowCodex, "tools"),
                   {"web_search", "file_browser"})

RanTwice ==
    /\ Len(cfgHist) >= 2
    /\ cfgHist[Len(cfgHist) - 1] = LastRun
    /\ cfgOk

\* C7 as claimed: a second run of a configurator with the same API key and
\* level leaves every configuration file identical.
C7_RerunLeavesFileIdentical ==
    RanTwice => \A p \in ConfigPaths : disk[p] = prevDisk[p]

Approved(config) == Get(Get(config, "customApiKeyResponses"), "approved")

Occurrences(arr, v) == Cardinality({n \in 1..Len(arr[2]) : arr[2][n] = v})

\* C7 amended: a second run with the same API key and level leaves every
\* configuration file with the same data; configureClaude leaves the file
\* itself identical, with the key's suffix once in approved, and
\* configureCodex leaves one megallm provider.
C7_RerunLeavesSameData ==
    RanTwice =>
        /\ \A p \in ConfigPaths :
               /\ disk[p].exists = prevDisk[p].exists
               /\ SameData(disk[p].data, prevDisk[p].data)
        /\ LastRun.op = "configureClaude" =>
               /\ disk[LastRun.path] = prevDisk[LastRun.path]
               /\ Occurrences(Approved(disk[LastRun.path].data),
                              Str(getLastNCharacters(LastRun.key))) = 1
        /\ LastRun.op = "configureCodex" =>
               Get(Get(disk[LastRun.path].data, "model_providers"), "megallm") = megallmProvider

C7_Witness ==
    /\ RanTwice
    /\ LastRun.op = "configureCodex"
    /\ disk[LastRun.path] # prevDisk[LastRun.path]

(***************************************************************************)
(* Properties of the configuration files                                   *)
(***************************************************************************)
\* a read that directly follows a successful write of the same file
ReadAfterWrite(writer, reader) ==
    /\ Len(cfgHist) >= 2
    /\ LastRun.op = reader
    /\ cfgHist[Len(cfgHist) - 1].op = writer
    /\ cfgHist[Len(cfgHist) - 1].ok
    /\ cfgHist[Len(cfgHist) - 1].path = LastRun.path

Written == cfgHist[Len(cfgHist) - 1].data

ConfiguratorFailed == \E n \in 1..Len(ran) : ~ran[n].ok

FailureCauses == {"configFailed", "error", "installFailed", "noTools"}

\* C9: a run of main that ends because of a failure exits with status 1
\* and has not printed the success message; once a configurator of the
\* selected tools has returned false the flow has printed 'Configuration
\* failed!' and is at the retry prompt or has exited, and declining the
\* retry exits with status 1 with no setEnvironmentVariable call made; an
\* exception other than a force-close exits with status 1.
C9_FailureExitsNonZero ==
    /\ (pc = "exited" /\ cause \in FailureCauses) =>
           exitCode = 1 /\ MsgSuccess \notin printed
    /\ ConfiguratorFailed =>
           /\ MsgFailed \in printed
           /\ pc \in {"retry", "exited"}
           /\ MsgSuccess \notin printed
           /\ envCalls = <<>>
    /\ pc = "returned" => ~ConfiguratorFailed /\ cause = "done"

C9_Witness ==
    /\ pc = "exited"
    /\ cause = "configFailed"
    /\ Len(ran) = 2
    /\ ~ran[1].ok /\ ran[2].ok

\* the configuration files in the home directory, with their backups
HomePaths ==
    LET home == {CONFIG_PATHS.claude.user, CONFIG_PATHS.codex.user, CONFIG_PATHS.opencode.user}
    IN home \cup {backupPath(p) : p \in home}

\* C12: once the configurators have run at project level, no configuration
\* file of the home directory differs from what it was before they ran, no
\* shell profile has changed and no setEnvironmentVariable call was made.
C12_ProjectLevelStaysInCwd ==
    (setupLevel = SETUP_LEVELS.PROJECT /\ ran # <<>>) =>
        /\ \A p \in HomePaths : disk[p] = prevDisk[p]
        /\ fs = initFs
        /\ envCalls = <<>>

CodexProjectPaths == {CONFIG_PATHS.codex.project, backupPath(CONFIG_PATHS.codex.project)}

CodexConfigured(n) == ran[n].tool = "codex" /\ ran[n].ok

BackedUp(p) == disk[backupPath(p)] = initDisk[p]

\* C14: when a run that entered main once completes, every configuration
\* file that existed at the start and has been rewritten or deleted has a
\* backup file holding the content it had at the start.
C14_BackupBeforeModification ==
    (pc = "returned" /\ attempts = 1) =>
        \A p \in ConfigPaths : (initDisk[p].exists /\ disk[p] # initDisk[p]) => BackedUp(p)

\* C15: after removeEnvVars() has returned success=true with no errors,
\* detection finds no 'config_file' entry for any of the three variables
\* in a shell profile or /etc/environment.
C15_RemovalCoversDetection ==
    (hist # <<>> /\ results.success /\ results.errors = <<>>) =>
        \A V \in VarNames : detectUnixEnvVars(fs, V) = {}

\* C16: when removeConfigurationFiles() has completed without errors, a
\* Codex configuration that checkExistingCodexConfig() reported as
\* MegaLLM-configured before is no longer reported (hasConfig = false).
C16_CodexConfigRemoved ==
    (cfgHist # <<>> /\ cfgOk /\ checkExistingCodexConfig(prevDisk).hasConfig) =>
        ~checkExistingCodexConfig(disk).hasConfig

\* C17: a run that ends at the existing-configuration prompt (Skip, Cancel,
\* or Override declined) has status 0 and has changed no configuration
\* file, no shell profile and no environment variable.
C17_SkipCancelChangeNothing ==
    (pc = "exited" /\ cause \in {"skip", "cancel"} /\ attempts = 1 /\ selectedTool = "") =>
        /\ exitCode = 0
        /\ disk = initDisk
        /\ fs = initFs
        /\ penv = [v \in VarNames |-> NoValue]

\* C18: a run that ends because the user answered No to the configuration
\* summary and declined to reconfigure has printed 'Setup cancelled.', has
\* status 0, and has left every configuration file, shell profile and
\* environment variable as it was when the run started.
C18_NothingAppliedWithoutConfirmation ==
    (pc = "exited" /\ cause = "declined" /\ attempts = 1) =>
        /\ exitCode = 0
        /\ MsgCancelled \in printed
        /\ disk = initDisk
        /\ fs = initFs
        /\ penv = [v \in VarNames |-> NoValue]

(***************************************************************************)
(* Properties of promptApiKey()                                            *)
(***************************************************************************)
\* C19: every API key promptApiKey returns is at least 20 characters long.
C19_ReturnedKeyAtLeast20 == pc = "keyReturned" => StrLength(keyInput) >= MinKeyLength

\* C20: every API key promptApiKey returns satisfies validateApiKey: it is
\* not empty, not shorter than 20 characters, and holds no space unless it
\* starts with 'Bearer '.
C20_ReturnedKeyIsValid == pc = "keyReturned" => validateApiKey(keyInput)

(***************************************************************************)
(* Properties of the tools configured by main()                            *)
(***************************************************************************)
RanTools == {ran[n].tool : n \in 1..Len(ran)}

\* C21: whenever a run reports success after configuring Codex or OpenCode,
\* setEnvironmentVariable('MEGALLM_API_KEY', apiKey, true) has been executed
\* in that run, for every tool selection and setup level.
C21_MegallmKeySetWhenRequired ==
    pc = "returned" /\ RanTools \cap {"codex", "opencode"} # {}
        => \E i \in 1..Len(envCalls) : envCalls[i] = "MEGALLM_API_KEY"

\* C22: the configurators that run are those of tools detected as installed,
\* and under 'Configure Both' they are exactly those of the tools listed as
\* individual choices, which are the installed tools.
C22_ConfiguredAreSelected ==
    pc \in {"setEnv", "statusline", "finish", "retry"} =>
        /\ RanTools \subseteq installed
        /\ selectedTool = "both" => RanTools = installed

(***************************************************************************)
(* Properties of configureClaude                                           *)
(***************************************************************************)
ClaudeRan ==
    /\ cfgHist # <<>>
    /\ LastRun.op = "configureClaude"
    /\ cfgOk

\* C23: after a successful project-level configureClaude, the path of the
\* configuration file it wrote is listed in .gitignore, whichever of
\* .claude/settings.json and .claude/settings.local.json was chosen.
C23_ProjectConfigInGitignore ==
    ClaudeRan /\ LastRun.level = "project" =>
        gitignore.exists /\ LastRun.path \in Range(gitignore.text)

\* the entries of customApiKeyResponses.approved or .rejected
ResponseEntries(config, list) ==
    LET stored == Get(Get(config, "customApiKeyResponses"), list)
    IN IF TypeTag(stored) = "array" THEN Range(stored[2]) ELSE {}

\* C24: configureClaude adds the suffix of the API key to
\* customApiKeyResponses.approved and keeps every entry the existing
\* configuration had in approved and in rejected.
C24_ApprovalsKept ==
    ClaudeRan =>
        /\ Str(getLastNCharacters(LastRun.key))
               \in ResponseEntries(disk[LastRun.path].data, "approved")
        /\ \A list \in {"approved", "rejected"} :
               ResponseEntries(prevDisk[LastRun.path].data, list)
                   \subseteq ResponseEntries(disk[LastRun.path].data, list)

(***************************************************************************)
(* Properties of removeConfigurationFiles over a Claude configuration      *)
(***************************************************************************)
ClaudeCleaned(p) ==
    /\ cfgHist # <<>>
    /\ LastRun.op = "removeConfigurationFiles"
    /\ prevDisk[p].exists
    /\ ~prevDisk[p].corrupt

\* the approved suffix of the key a configuration stores in env.ANTHROPIC_API_KEY
MegallmSuffixes(config) ==
    LET key == Get(Get(config, "env"), "ANTHROPIC_API_KEY")
    IN IF TypeTag(key) = "string" THEN {Str(getLastNCharacters(key[2]))} ELSE {}

\* C25: removeConfigurationFiles removes only MegaLLM-specific data from a
\* Claude configuration: apart from env.ANTHROPIC_BASE_URL,
\* env.ANTHROPIC_API_KEY and the approved suffix of the MegaLLM key, every
\* key and every list entry (approved suffixes of other keys included) is kept.
C25_CleanupKeepsOtherData ==
    \A p \in Range(ClaudePaths) :
        ClaudeCleaned(p) =>
            /\ EntriesKept(prevDisk[p].data, disk[p].data, {"env", "customApiKeyResponses"})
            /\ EntriesKept(Get(prevDisk[p].data, "env"), Get(disk[p].data, "env"),
                           {"ANTHROPIC_BASE_URL", "ANTHROPIC_API_KEY"})
            /\ EntriesKept(Get(prevDisk[p].data, "customApiKeyResponses"),
                           Get(disk[p].data, "customApiKeyResponses"), {"approved"})
            /\ ResponseEntries(prevDisk[p].data, "approved") \ MegallmSuffixes(prevDisk[p].data)
                   \subseteq ResponseEntries(disk[p].data, "approved")

(***************************************************************************)
(* Properties of the detection of an existing configuration                *)
(***************************************************************************)
\* C26: checkExistingConfiguration reports isConfigured = true whenever any
\* detected ANTHROPIC_BASE_URL value, from any source, contains 'megallm',
\* whatever the order in which the sources were scanned.
C26_AnyMegallmUrlIsConfigured ==
    checked # NotChecked =>
        ((\E n \in 1..Len(checked.envVars) : ValueIncludesMegallm(checked.envVars[n].value))
             => checked.isConfigured)

\* C29: for every detected API key, of every length, the display value
\* maskApiKey produces differs from the raw key and does not show all of
\* its characters.
C29_DisplayValueHidesKey ==
    keyEntry # NoEntry =>
        /\ keyEntry.value # keyEntry.rawValue
        /\ ~(Range(keyEntry.rawValue) \subseteq Range(keyEntry.value))

(***************************************************************************)
(* Properties of step 8 of main()                                          *)
(***************************************************************************)
\* C27: the flow prints 'Environment variables set' only if every
\* setEnvironmentVariable call of that step returned true; setOk is what
\* the last of them returned.
C27_EnvSetOnlyWhenPersisted == MsgEnvSet \in printed => setOk

(***************************************************************************)
(* Properties of configureClaude on a configuration it cannot read         *)
(***************************************************************************)
ClaudeReadFailed ==
    /\ cfgHist # <<>>
    /\ LastRun.op = "configureClaude"
    /\ prevDisk[LastRun.path].corrupt

\* C28: if the existing configuration file exists but cannot be parsed,
\* configureClaude returns false and neither the configuration file nor its
\* .bak backup is created or modified.
C28_ReadErrorChangesNothing ==
    ClaudeReadFailed =>
        /\ ~cfgOk
        /\ disk[LastRun.path] = prevDisk[LastRun.path]
        /\ disk[backupPath(LastRun.path)] = prevDisk[backupPath(LastRun.path)]

C28_Witness ==
    /\ ClaudeReadFailed
    /\ ~cfgOk
    /\ ~disk[backupPath(LastRun.path)].exists

(***************************************************************************)
(* mergeJsonConfig against the one-level merge                             *)
(***************************************************************************)
\* the entries of v laid over by those of an object n: the keys of both,
\* with the value of n where n has the key
IsOverlay(r, v, n) ==
    /\ IsPlainObject(r)
    /\ Range(KeysOf(r)) = {SpreadEntries(v)[j][1] : j \in 1..Len(SpreadEntries(v))}
                          \cup Range(KeysOf(n))
    /\ \A k \in Range(KeysOf(n)) : Get(r, k) = Get(n, k)
    /\ \A j \in 1..Len(SpreadEntries(v)) :
           ~Has(n, SpreadEntries(v)[j][1]) => Get(r, SpreadEntries(v)[j][1]) = SpreadEntries(v)[j][2]

\* r is the one-level merge of the objects e and n
IsOneLevelMerge(r, e, n) ==
    /\ IsPlainObject(r)
    /\ Range(KeysOf(r)) = Range(KeysOf(e)) \cup Range(KeysOf(n))
    /\ \A k \in Range(KeysOf(n)) :
           IF IsPlainObject(Get(n, k))
           THEN IsOverlay(Get(r, k), IF Truthy(Get(e, k)) THEN Get(e, k) ELSE EmptyObj, Get(n, k))
           ELSE Get(r, k) = Get(n, k)
    /\ \A k \in Range(KeysOf(e)) \ Range(KeysOf(n)) : Get(r, k) = Get(e, k)

====
